---------------------------- MODULE Spec2Model ----------------------------
(***************************************************************************)
(* hoardy-mail: the per-account action pipeline of `for-each fetch ; delete`*)
(* (src/hoardy_mail/__main__.py): for_each_account, for_each_folder_multi, *)
(* for_each_folder_, do_folder_action, do_fetch, do_fetch_batch, do_store. *)
(*                                                                         *)
(* The program is one sequential process; `pc` is its position.  The IMAP  *)
(* server, the MDA and the file system are the environment: every answer   *)
(* they can give is a nondeterministic choice.  Answers other than the     *)
(* nominal one are paid from `budget`, which starts at MaxFaults.          *)
(***************************************************************************)
EXTENDS Integers, Sequences, FiniteSets, TLC

(* ------------------------------ bounds -------------------------------- *)

\* accounts given on the command line (cfg.accounts)
NumAccounts == 2
\* non-nominal answers of the environment in one cycle
MaxFaults == 1
\* messages in a folder, for the packing specification
MaxMsgs == 3
\* largest message size / batch size, in bytes, for the packing specification
MaxSize == 3
MaxSignals == 2
MaxCycles == 2
MaxSkew == 2
\* longest string handed to imap_quote and imap_parse
MaxLen == 3
\* cuts of an answer to UID FETCH into chunks, besides those at its literals
MaxCuts == 1
\* days that pass while the program runs
MaxTicks == 2
\* batches this process delivers to the Maildir
MaxBatches == 2
\* commands of one session that are followed
MaxCommands == 32

KiB == 1024

Accounts == 1 .. NumAccounts

(* ------------------------------ helpers ------------------------------- *)

Min(x, y) == IF x < y THEN x ELSE y
MinOf(S) == CHOOSE x \in S : \A y \in S : x <= y
Max(x, y) == IF x > y THEN x ELSE y

\* Python's s[:n]
SliceTo(s, n) ==
    IF n >= 0 THEN SubSeq(s, 1, Min(n, Len(s)))
    ELSE SubSeq(s, 1, Max(Len(s) + n, 0))

\* Python's s[n:]
SliceFrom(s, n) ==
    IF n >= 0 THEN SubSeq(s, Min(n, Len(s)) + 1, Len(s))
    ELSE SubSeq(s, Max(Len(s) + n, 0) + 1, Len(s))

Range(s) == { s[i] : i \in 1 .. Len(s) }

\* the subsequence of s whose elements satisfy Test, in order
RECURSIVE SelectUids(_, _)
SelectUids(s, keep) ==
    IF s = << >> THEN << >>
    ELSE (IF Head(s) \in keep THEN << Head(s) >> ELSE << >>)
         \o SelectUids(Tail(s), keep)

InsertAt(s, i, x) == SubSeq(s, 1, i) \o << x >> \o SubSeq(s, i + 1, Len(s))
RemoveAt(s, i) == SubSeq(s, 1, i - 1) \o SubSeq(s, i + 1, Len(s))


(* --------------------------- configuration ---------------------------- *)

\* --yolo / --careful / --paranoid: cfg.paranoid is None / False / True
DeliveryModes == { "yolo", "careful", "paranoid" }

\* the resolved --mark of `fetch` (prepare_cmd has resolved "auto")
Markings == { "noop", "seen" }

\* the messages the INBOX of each account holds at the start of a cycle, all
\* unseen: the RFC822.SIZE of UID 1, 2, ... in the order SEARCH returns them
MsgLists ==
    { << >>,
      << 100 * KiB >>,
      << 100 * KiB, 100 * KiB >>,
      << 100 * KiB, 200 * KiB, 300 * KiB >> }

(* ------------------------------- state -------------------------------- *)

VARIABLES
    cfg,        \* the options of the run
    mailbox,    \* server: per account, the sizes of the messages of its INBOX
    srv,        \* server: per account, the UIDs that are \Seen, \Deleted, gone
    account,    \* Account: telemetry counters and the errors list
    pc,         \* position of the process
    acct,       \* for_each_account: index of the account being visited
    sub,        \* for_each_folder_multi: index of the sub-command being run
    loc,        \* locals of do_fetch / do_fetch_batch / do_store
    wire,       \* history: the IMAP commands sent on the current session
    outcome,    \* history: what delivery of the current batch met
    delivered,  \* history: per account, the UIDs whose delivery completed
    budget,     \* number of non-nominal answers the environment may still give
    sig,        \* the signal handlers' state, and the signals still to come
    poll,       \* for_each_account_poll: --every, the cycle, the sleep
    hooks,      \* --new-mail-cmd of `fetch`, State.pending_hooks, the hooks run
    codec,      \* a string handed to imap_quote, imap_parse or the reader of
                \* UID FETCH answers, and what they make of it
    fs          \* --maildir D: its files, the flock of D/new, and the locals
                \* of do_fetch_batch in each process that delivers to it

vars == << cfg, mailbox, srv, account, pc, acct, sub, loc, wire, outcome,
           delivered, budget, sig, poll, hooks, codec, fs >>

\* the sub-commands: those of `for-each`, in the order given (`fetch ; delete`,
\* or `delete ; delete`), or the one command of the command line
Subcfgs ==
    CASE cfg.command = "for-each" -> << "fetch", "delete" >>
      [] cfg.command = "for-each delete" -> << "delete", "delete" >>
      [] OTHER -> << cfg.command >>

\* cfg.folders
Folders == cfg.folders

\* a server before the first session: nothing is seen, deleted or expunged
\*   capabilities: the words of its answer to CAPABILITY
NoServerState ==
    [ seen |-> {}, flagged |-> {}, deleted |-> {}, gone |-> {}, capabilities |-> << >> ]

\* Account.reset
AccountReset ==
    [ num_delivered |-> 0, num_undelivered |-> 0, num_marked |-> 0,
      num_trashed |-> 0, num_deleted |-> 0, errors |-> << >> ]

\* Account.reset, were it to zero the counters only
reset_counters(acc) == [ AccountReset EXCEPT !.errors = acc.errors ]

\* for_each_account: account.reset() at the head of each visit
reset(acc) == AccountReset

NoLocals ==
    [ message_uids |-> << >>, new |-> << >>, batch |-> << >>, batch_total |-> 0,
      final |-> FALSE, data |-> << >>, done_uids |-> << >>, failed_uids |-> << >>,
      store_uids |-> << >>, method |-> "noop", interruptable |-> TRUE ]

NoOutcome == [ msg |-> << >>, lock |-> TRUE, dirsync |-> TRUE ]

\* add_common: the defaults of the batching options
DefaultStoreNumber == 150
DefaultFetchNumber == 150

\* the command line of the session: fetch (--unseen, --mark auto, i.e. seen)
\* then delete (--seen, --method delete), in each delivery mode and with each
\* delivery method, and fetch --mark noop in the default mode; the default
\* --store-number and --fetch-number, small --batch-number and --batch-size
Configs ==
    { c \in [ paranoid : DeliveryModes, maildir : BOOLEAN, mark : Markings,
              method : { "delete" },
              store_number : { DefaultStoreNumber },
              fetch_number : { DefaultFetchNumber },
              batch_number : { 10 }, batch_size : { 256 * KiB },
              socket : { "ssl" }, allow_login : { TRUE }, allow_plain : { FALSE },
              host : { "mail.example.org" }, dry_run : { FALSE },
              very_dry_run : { FALSE },
              folders : { << "INBOX" >> }, command : { "for-each" },
              seen : { "unset" }, flagged : { "unset" },
              older_than : { << >> } ] :
        c.mark = "noop" => c.paranoid = "careful" /\ c.maildir }

\* the signals the program handles: setup_kisstdlib(..., signals=[...]);
\* SIGBREAK is the SIGTERM of another platform
Signals == { "SIGINT", "SIGTERM", "SIGUSR1" }

\* no signal was received, and none will be
\*   delayed: the interrupt signal that waits for the next safe point
\*   at, first, last: history: the length of `wire` when it was delayed, the
\*       first interrupt signal and where it arrived, the last signal
\*   wakes: history: where each SIGUSR1 arrived
\*   left: the number of signals the environment may still send
NoSignals ==
    [ delayed |-> "none", at |-> 0,
      first |-> [ signum |-> "none", cycle |-> 0, during |-> "none" ],
      last |-> "none", wakes |-> << >>, left |-> 0 ]

\* the program runs without --every: one cycle
\*   every: << >> for None, else << INTERVAL >>
\*   elapsed, U: history: the duration of the last cycle, the last random draw
\*   now: the wall clock, in seconds
\*   started: `now = time.time()` at the head of the cycle
\*   rendered: the `now` the search filters of the sub-commands were last
\*       made with
NoPolling ==
    [ every |-> << >>, every_add_random |-> 0, cycle |-> 1,
      elapsed |-> 0, U |-> 0, to_sleep |-> 0,
      now |-> 0, started |-> 0, rendered |-> 0 ]

\* no string is being quoted or parsed
\*   stage: "none", or how far the string got: "input", "quoted", "parsed"
\*   input, literals: the string (a sequence of characters) and the literals
\*       that come with it
\*   line: the string to parse; result: what the parser made of it
\*   answer: the messages of an answer to UID FETCH, `input` being its chunks
\*   data: the chunks that are still to be read
NoCodec == [ stage |-> "none", input |-> << >>, literals |-> << >>, line |-> << >>,
             answer |-> << >>, data |-> << >>, result |-> [ err |-> "", val |-> << >> ] ]

\* the processes that deliver to one Maildir: this one and another that runs
\* the same program
Procs == { "this", "other" }

\* do_fetch_batch is not running
\*   at: where it is; batch: history: the number of the batch, which stands
\*       for sepoch_ms in the names of its temporary files
\*   data: the messages of the answer, by UID and sha256 of header and body
\*   unsynced, synced: (uid, msghash, tmp_path) of the files written, fsynced
\*   msg_path: the name in D/new chosen for synced[1]
NoBatch ==
    [ at |-> "idle", batch |-> 0, data |-> << >>, unsynced |-> << >>,
      synced |-> << >>, done_uids |-> << >>, failed_uids |-> << >>,
      tmp_num |-> 0, msg_path |-> << >>, errors |-> << >> ]

\* an empty Maildir that nobody delivers to
\*   tmp: the files of D/tmp, by the << pid, sepoch_ms, tmp_num >> of their names
\*   new: the files of D/new: << msghash, msg_num >> of the name |-> the
\*       delivery << pid, batch, uid >> whose octets the file holds
\*   locks: the descriptors of D/new, << pid, batch >>, that hold its flock
NoFiles ==
    [ tmp |-> {}, new |-> << >>, locks |-> {}, proc |-> [ p \in Procs |-> NoBatch ] ]

\* `fetch` has no --new-mail-cmd
\*   new_mail_cmd: cfg.new_mail_cmd of the `fetch` sub-command
\*   pending: state.pending_hooks
\*   ran, count: history: the hooks run at the end of the cycle, in order, and
\*       the number of messages counted as delivered in the cycle
NoHooks == [ new_mail_cmd |-> << >>, pending |-> << >>, ran |-> << >>, count |-> 0 ]

Init ==
    /\ codec = NoCodec
    /\ fs = NoFiles
    /\ hooks = NoHooks
    /\ sig = NoSignals
    /\ poll = NoPolling
    /\ cfg \in Configs
    /\ \E m \in MsgLists : mailbox = [ a \in Accounts |-> m ]
    /\ srv = [ a \in Accounts |-> [ NoServerState EXCEPT !.capabilities = << "IMAP4rev1" >> ] ]
    /\ account = [ a \in Accounts |-> AccountReset ]
    /\ pc = "account"
    /\ acct = 1
    /\ sub = 1
    /\ loc = NoLocals
    /\ wire = << >>
    /\ outcome = NoOutcome
    /\ delivered = [ a \in Accounts |-> {} ]
    /\ budget = MaxFaults

(* ------------------------ errors and telemetry ------------------------ *)

\* account_error: account.errors.append(message)
account_error(acc, message) == [ acc EXCEPT !.errors = Append(@, message) ]

RECURSIVE account_errors(_, _)
account_errors(acc, messages) ==
    IF messages = << >> THEN acc
    ELSE account_errors(account_error(acc, Head(messages)), Tail(messages))

\* an entry of `wire`: a command, and the answer to it
Sent(cmd, uids, args, typ, data) ==
    [ cmd |-> cmd, uids |-> uids, args |-> args, typ |-> typ, data |-> data ]

\* an entry of account.errors: the message, and (history) the sub-command that
\* was running when it was recorded
Msg(by, text) == [ by |-> by, msg |-> text ]


(* --------------------------- the wire codec --------------------------- *)

\* a byte string is a sequence of characters; a parse tree is a sequence of
\* byte strings (atoms) and of parse trees (lists)
Atom(s) == [ kind |-> "atom", val |-> s ]
List(t) == [ kind |-> "list", val |-> t ]

\* imap_parse_data returns (acc, rest), or raises; literals.pop(0) takes from
\* the list that the caller and the nested calls share
Parsed(acc, rest, literals) == [ err |-> "", val |-> acc, rest |-> rest, literals |-> literals ]
Raised(exc) == [ err |-> exc, val |-> << >>, rest |-> << >>, literals |-> << >> ]

\* data.find(b"}", i + 1): the first closing brace after position i, or 0
FindCurly(data, i) ==
    LET found == { j \in i + 1 .. Len(data) : data[j] = "}" }
    IN  IF found = {} THEN 0 ELSE CHOOSE j \in found : \A k \in found : j <= k

\* imap_parse_data: the loop `while i < len(data)` from position i (counted
\* from 1), with the acc, res and state of the code
RECURSIVE imap_parse_data(_, _, _, _, _, _, _)
imap_parse_data(data, i, acc, res, state, literals, top_level) ==
    IF i > Len(data)
    THEN IF res # << >>
         THEN IF state \/ ~top_level
              THEN Raised("unfinished quote or parens")
              ELSE Parsed(Append(acc, Atom(res)), << >>, literals)
         ELSE Parsed(acc, << >>, literals)
    ELSE LET c == data[i]
         IN  IF ~state
             THEN CASE c = "\"" ->
                         IF res # << >> THEN Raised("unexpected quote")
                         ELSE imap_parse_data(data, i + 1, acc, << >>, TRUE,
                                              literals, top_level)
                    [] c = " " ->
                         imap_parse_data(data, i + 1, Append(acc, Atom(res)), << >>,
                                         FALSE, literals, top_level)
                    [] c = "(" ->
                         IF res # << >> THEN Raised("unexpected parens")
                         ELSE LET r == imap_parse_data(SliceFrom(data, i), 1, << >>,
                                                       << >>, FALSE, literals, FALSE)
                              IN  IF r.err # "" THEN r
                                  ELSE IF Len(r.rest) = 0
                                  THEN Parsed(Append(acc, List(r.val)), << >>, r.literals)
                                  ELSE IF r.rest[1] \notin { " ", ")" }
                                  THEN Raised("expecting space or end parens")
                                  ELSE imap_parse_data(r.rest, 2, Append(acc, List(r.val)),
                                                       << >>, FALSE, r.literals, top_level)
                    [] c = ")" ->
                         Parsed(Append(acc, Atom(res)), SliceFrom(data, i), literals)
                    [] c = "{" ->
                         IF res # << >> THEN Raised("unexpected curly")
                         ELSE LET endcurly == FindCurly(data, i)
                              IN  IF endcurly = 0 THEN Raised("expected curly")
                                  ELSE IF literals = << >> THEN Raised("IndexError")
                                  ELSE IF endcurly + 1 > Len(data)
                                  THEN Parsed(Append(acc, Atom(Head(literals))), << >>,
                                              Tail(literals))
                                  ELSE IF data[endcurly + 1] \notin { " ", ")" }
                                  THEN Raised("expecting space or end parens")
                                  ELSE imap_parse_data(data, endcurly + 2,
                                                       Append(acc, Atom(Head(literals))),
                                                       << >>, FALSE, Tail(literals),
                                                       top_level)
                    [] OTHER ->
                         imap_parse_data(data, i + 1, acc, Append(res, c), FALSE,
                                         literals, top_level)
             ELSE CASE c = "\"" ->
                         imap_parse_data(data, i + 1, acc, res, FALSE, literals, top_level)
                    [] c = "\\" ->
                         IF i + 1 > Len(data) THEN Raised("unfinished escape sequence")
                         ELSE imap_parse_data(data, i + 2, acc, Append(res, data[i + 1]),
                                              TRUE, literals, top_level)
                    [] OTHER ->
                         imap_parse_data(data, i + 1, acc, Append(res, c), TRUE,
                                         literals, top_level)

\* imap_parse: the tree, or the exception; a tail left over is an error
imap_parse(line, literals) ==
    LET r == imap_parse_data(line, 1, << >>, << >>, FALSE, literals, TRUE)
    IN  IF r.err # "" THEN [ err |-> r.err, val |-> << >> ]
        ELSE IF r.rest # << >> THEN [ err |-> "unexpected tail", val |-> << >> ]
        ELSE [ err |-> "", val |-> r.val ]

\* imap_quote: arg.replace("\\", "\\\\").replace('"', '\\"'), in double quotes
RECURSIVE Escaped(_)
Escaped(arg) ==
    IF arg = << >> THEN << >>
    ELSE (IF Head(arg) \in { "\\", "\"" } THEN << "\\", Head(arg) >> ELSE << Head(arg) >>)
         \o Escaped(Tail(arg))

imap_quote(arg) == << "\"" >> \o Escaped(arg) \o << "\"" >>

\* bytes.upper(), on the attribute names a server sends
Upper(name) == IF name = << "uid" >> THEN << "UID" >> ELSE name

\* imap_parse_attrs: the dictionary of a list of names and values; a later
\* value replaces an earlier one of the same name
RECURSIVE imap_parse_attrs(_, _)
imap_parse_attrs(data, res) ==
    IF data = << >> THEN res
    ELSE LET name == Upper(data[1].val)
         IN  imap_parse_attrs(SliceFrom(data, 2),
                              [ n \in (DOMAIN res) \cup { name } |->
                                  IF n = name THEN data[2] ELSE res[n] ])

\* an element of the data imaplib returns for UID FETCH: the tuple of a piece
\* of text that ends with the size of a literal and the literal, or a piece of
\* text alone
Chunk(piece, literal) == [ tuple |-> TRUE, piece |-> piece, lit |-> literal ]
Plain(piece) == [ tuple |-> FALSE, piece |-> piece, lit |-> << >> ]

\* do_fetch_batch, were every piece of text alone to end a line
EndsLineAlways(el) == TRUE

\* do_fetch_batch: `if el.endswith(b")")`, the (xxx) detector
EndsLine(el) == el # << >> /\ el[Len(el)] = ")"

\* do_fetch_batch, the inner loop: the chunks are taken off the data up to
\* the first piece of text alone that ends with a closing parenthesis
RECURSIVE Gather(_, _, _)
Gather(data, chunks, literals) ==
    IF data = << >> THEN [ line |-> chunks, literals |-> literals, data |-> << >> ]
    ELSE LET el == Head(data)
         IN  IF el.tuple
             THEN Gather(Tail(data), chunks \o el.piece, Append(literals, el.lit))
             ELSE IF EndsLine(el.piece)
             THEN [ line |-> chunks \o el.piece, literals |-> literals,
                    data |-> Tail(data) ]
             ELSE Gather(Tail(data), chunks \o el.piece, literals)

\* do_fetch_batch: `_, attrs_ = imap_parse(line, literals)` and
\* imap_parse_attrs(attrs_): the attributes of a line, or the exception
Attrs(line, literals) ==
    LET r == imap_parse(line, literals)
    IN  IF r.err # "" THEN r
        ELSE IF Len(r.val) # 2 THEN [ err |-> "unpack", val |-> << >> ]
        ELSE IF r.val[2].kind # "list" THEN [ err |-> "not a list", val |-> << >> ]
        ELSE IF Len(r.val[2].val) % 2 # 0
        THEN [ err |-> "data array of non-even length", val |-> << >> ]
        ELSE IF \E i \in DOMAIN r.val[2].val : i % 2 = 1 /\ r.val[2].val[i].kind # "atom"
        THEN [ err |-> "AttributeError", val |-> << >> ]
        ELSE [ err |-> "", val |-> imap_parse_attrs(r.val[2].val, << >>) ]

(* ------------------------------ the server ---------------------------- *)

\* for_each_folder_multi, were it to take the sub-commands last to first
CommandBackwards == Subcfgs[Len(Subcfgs) + 1 - sub]

\* for_each_folder_multi: `for subcfg in subcfgs`, the command of the
\* sub-command being run
Command == Subcfgs[sub]

\* add_flag_filters(cmd, default): the default of `seen` when none of
\* --any-seen, --seen, --unseen is given; "None", "True", "False" stand for
\* the values of Python, "depends" for the string
FlagFilterDefault(command) ==
    CASE command = "fetch" -> "False"
      [] command = "delete" -> "True"
      [] command = "mark" -> "depends"

\* the parsed cfg.seen and cfg.flagged of a sub-command: the options of the
\* command line ("unset": not given), else the defaults; the sub-commands of
\* `for-each` are given no flag filter
ParsedFlags(command) ==
    LET seen == IF cfg.command = command THEN cfg.seen ELSE "unset"
        flagged == IF cfg.command = command THEN cfg.flagged ELSE "unset"
    IN  [ seen |-> IF seen = "unset" THEN FlagFilterDefault(command) ELSE seen,
          flagged |-> IF flagged = "unset" THEN "None" ELSE flagged ]

\* prepare_cmd: `mark` with cfg.seen is None and cfg.flagged is None acts on
\* the messages that lack the marking
prepare_cmd(command, f, mark) ==
    IF command = "mark" /\ f.seen = "None" /\ f.flagged = "None"
    THEN CASE mark = "seen" -> [ f EXCEPT !.seen = "False" ]
           [] mark = "unseen" -> [ f EXCEPT !.seen = "True" ]
           [] mark = "flagged" -> [ f EXCEPT !.flagged = "False" ]
           [] mark = "unflagged" -> [ f EXCEPT !.flagged = "True" ]
           [] OTHER -> f
    ELSE f

\* the truth of a value in `if cfg.seen:`
Truthy(v) == v \in { "True", "depends" }

\* make_search_filter: the words of the filter
make_search_filter(f) ==
    (IF f.seen # "None"
     THEN << IF Truthy(f.seen) THEN "SEEN" ELSE "UNSEEN" >> ELSE << >>)
    \o (IF f.flagged # "None"
        THEN << IF Truthy(f.flagged) THEN "FLAGGED" ELSE "UNFLAGGED" >> ELSE << >>)

\* make_search_filter: "(" + " ".join(filters) + ")", or "(ALL)"
FilterText(filters) ==
    CASE filters = << >> -> "(ALL)"
      [] filters = << "SEEN" >> -> "(SEEN)"
      [] filters = << "UNSEEN" >> -> "(UNSEEN)"
      [] filters = << "FLAGGED" >> -> "(FLAGGED)"
      [] filters = << "UNFLAGGED" >> -> "(UNFLAGGED)"
      [] filters = << "SEEN", "FLAGGED" >> -> "(SEEN FLAGGED)"
      [] filters = << "SEEN", "UNFLAGGED" >> -> "(SEEN UNFLAGGED)"
      [] filters = << "UNSEEN", "FLAGGED" >> -> "(UNSEEN FLAGGED)"
      [] filters = << "UNSEEN", "UNFLAGGED" >> -> "(UNSEEN UNFLAGGED)"

\* the words of cfg.search_filter of a sub-command
SearchWords(command) ==
    make_search_filter(prepare_cmd(command, ParsedFlags(command), cfg.mark))

\* cfg.search_filter: `fetch` acts on --unseen, `delete` on --seen by default
SearchFilter(command) == FilterText(SearchWords(command))

\* the seconds of a day: make_search_filter counts --older-than in days
Day == 86400

\* imap_date(time.gmtime(t)): the day t falls on, as the number of days since
\* the epoch
imap_date(t) == t \div Day

\* make_search_filter: the date of the BEFORE key of cfg.search_filter, from
\* the --older-than options of the sub-commands and the `now` it was made
\* with; << >> when there is no such key
SearchBefore ==
    IF cfg.older_than = << >> THEN << >>
    ELSE << imap_date(MinOf({ poll.rendered - cfg.older_than[i] * Day :
                                i \in DOMAIN cfg.older_than })) >>

\* srv.uid("SEARCH", cfg.search_filter) and the answer to it
SearchSent(command, typ, data) ==
    [ cmd |-> "UID SEARCH", uids |-> << >>, args |-> SearchFilter(command),
      typ |-> typ, data |-> data, before |-> SearchBefore ]

\* the server: the messages of the folder that a search key selects
Matching(a, key) ==
    CASE key = "SEEN" -> srv[a].seen
      [] key = "UNSEEN" -> (1 .. Len(mailbox[a])) \ srv[a].seen
      [] key = "FLAGGED" -> srv[a].flagged
      [] key = "UNFLAGGED" -> (1 .. Len(mailbox[a])) \ srv[a].flagged

AllUids(a) == [ i \in 1 .. Len(mailbox[a]) |-> i ]

\* what UID SEARCH returns: the UIDs of the folder that match, in UID order
SearchResult(a, command) ==
    SelectUids(AllUids(a),
               { u \in (1 .. Len(mailbox[a])) \ srv[a].gone :
                   \A k \in Range(SearchWords(command)) : u \in Matching(a, k) })

\* a parsed untagged FETCH response: imap_parse_attrs(attrs_)
SizeItem(a, u) ==
    [ attrs |-> { "UID", "RFC822.SIZE" }, uid |-> u, size |-> mailbox[a][u] ]
BodyItem(u) ==
    [ attrs |-> { "UID", "BODY[HEADER]", "BODY[TEXT]" }, uid |-> u, size |-> 0 ]
\* what the server sends when another client changes flags meanwhile
FlagsItems(uids) ==
    { [ attrs |-> { "FLAGS" }, uid |-> 0, size |-> 0 ] }
    \cup { [ attrs |-> { "UID", "FLAGS" }, uid |-> u, size |-> 0 ] : u \in Range(uids) }

\* the data of an OK answer: one item per requested UID, in the order requested,
\* at most one of them left out, at most one flags-only item put in between
Answers(items, uids) ==
    LET full == { items }
        noisy(d) == { InsertAt(d, i, x) : i \in 0 .. Len(d), x \in FlagsItems(uids) }
    IN  [ typ : { "OK" }, data : full, cost : { 0 } ]
        \cup [ typ : { "OK" }, data : UNION { noisy(d) : d \in full }, cost : { 1 } ]

\* the same, and answers that leave out one of the requested messages
AnswersOrShort(items, uids) ==
    LET short == { RemoveAt(items, i) : i \in 1 .. Len(items) }
        noisy(d) == { InsertAt(d, i, x) : i \in 0 .. Len(d), x \in FlagsItems(uids) }
    IN  Answers(items, uids)
        \cup [ typ : { "OK" }, data : short, cost : { 1 } ]
        \cup [ typ : { "OK" }, data : UNION { noisy(d) : d \in short }, cost : { 2 } ]

Rejected == [ typ |-> "NO", data |-> << >>, cost |-> 1 ]

(* ------------------------------ do_fetch ------------------------------ *)

\* do_fetch, the loop over the answer of the size probe: the (uid, size) pairs
\* of the items that have both attributes
RECURSIVE ProbedPairs(_)
ProbedPairs(data) ==
    IF data = << >> THEN << >>
    ELSE (IF { "UID", "RFC822.SIZE" } \subseteq Head(data).attrs
          THEN << [ uid |-> Head(data).uid, size |-> Head(data).size ] >>
          ELSE << >>)
         \o ProbedPairs(Tail(data))

\* Conflicts, were an item that lacks an attribute passed over in silence
ConflictsIgnored(data, expected) == << >>

\* do_fetch and do_fetch_batch: one account_conflict per item that lacks an
\* expected attribute
RECURSIVE Conflicts(_, _)
Conflicts(data, expected) ==
    IF data = << >> THEN << >>
    ELSE (IF expected \subseteq Head(data).attrs THEN << >>
          ELSE << Msg("fetch", "conflict") >>)
         \o Conflicts(Tail(data), expected)

\* Fits, were the size of the messages not looked at
FitsByNumber(b, total, size) == Len(b) < cfg.batch_number

\* Fits, were a full batch to take one more message
FitsOneMore(b, total, size) ==
    Len(b) <= cfg.batch_number /\ total + size < cfg.batch_size

\* the condition under which do_fetch adds a message to the running batch
Fits(b, total, size) ==
    Len(b) < cfg.batch_number /\ total + size < cfg.batch_size

\* PackPass, were a message that fits put at the head of the batch
RECURSIVE PackPassPrepends(_, _, _, _)
PackPassPrepends(new, b, total, leftovers) ==
    IF new = << >>
    THEN [ batch |-> b, batch_total |-> total, leftovers |-> leftovers ]
    ELSE IF Len(b) < cfg.batch_number /\ total + Head(new).size < cfg.batch_size
         THEN PackPassPrepends(Tail(new), << Head(new).uid >> \o b,
                               total + Head(new).size, leftovers)
         ELSE PackPassPrepends(Tail(new), b, total, Append(leftovers, Head(new)))

\* do_fetch, one pass of `for uel in new`
RECURSIVE PackPass(_, _, _, _)
PackPass(new, b, total, leftovers) ==
    IF new = << >>
    THEN [ batch |-> b, batch_total |-> total, leftovers |-> leftovers ]
    ELSE IF Fits(b, total, Head(new).size)
         THEN PackPass(Tail(new), Append(b, Head(new).uid),
                       total + Head(new).size, leftovers)
         ELSE PackPass(Tail(new), b, total, Append(leftovers, Head(new)))

\* do_fetch, were an empty batch not to take the first leftover
PackTurnLeavesEmpty(new, b, total) ==
    LET r == PackPass(new, b, total, << >>)
    IN  [ batch |-> r.batch, batch_total |-> r.batch_total,
          leftovers |-> r.leftovers, break |-> r.leftovers = << >> ]

\* do_fetch, one turn of `while True`: the pass, then an empty batch takes the
\* first leftover whatever its size
PackTurn(new, b, total) ==
    LET r == PackPass(new, b, total, << >>)
    IN  IF r.leftovers # << >> /\ r.batch = << >>
        THEN [ batch |-> << Head(r.leftovers).uid >>,
               batch_total |-> r.batch_total + Head(r.leftovers).size,
               leftovers |-> Tail(r.leftovers), break |-> FALSE ]
        ELSE [ batch |-> r.batch, batch_total |-> r.batch_total,
               leftovers |-> r.leftovers, break |-> r.leftovers = << >> ]

\* do_fetch, after the answer to the size probe of to_fetch
ProbeAnswered(acc, r, to_fetch) ==
    LET new == ProbedPairs(r.data)
        heard == account_errors(acc, Conflicts(r.data, { "UID", "RFC822.SIZE" }))
        to_fetch_set == Range(to_fetch) \ { new[i].uid : i \in 1 .. Len(new) }
    IN  IF r.typ # "OK"
        THEN [ ok |-> FALSE, new |-> << >>,
               acc |-> account_error(
                   [ acc EXCEPT !.num_undelivered = @ + Len(to_fetch) ],
                   Msg("fetch", "FETCH")) ]
        ELSE IF Cardinality(to_fetch_set) > 0
        THEN [ ok |-> FALSE, new |-> << >>,
               acc |-> account_error(
                   [ heard EXCEPT !.num_undelivered = @ + Len(to_fetch) ],
                   Msg("fetch", "FETCH: the result does not have all requested messages")) ]
        ELSE [ ok |-> TRUE, new |-> new, acc |-> heard ]


(* --------------------------- do_fetch_batch --------------------------- *)

\* what the delivery of one message can meet.  --mda: `flushed` is the write,
\* flush and close of the child's stdin, `retcode` its exit status.  --maildir:
\* `flushed` is the open, write and flush of the file in D/tmp, `fsynced` its
\* fsync and close, `renamed` its rename into D/new.
Smooth == [ flushed |-> TRUE, retcode |-> 0, fsynced |-> TRUE, renamed |-> TRUE ]

MessageOutcomes ==
    IF cfg.maildir
    THEN { Smooth, [ Smooth EXCEPT !.flushed = FALSE ],
           [ Smooth EXCEPT !.fsynced = FALSE ], [ Smooth EXCEPT !.renamed = FALSE ] }
    ELSE { Smooth, [ Smooth EXCEPT !.flushed = FALSE ],
           [ Smooth EXCEPT !.retcode = 1 ],
           [ Smooth EXCEPT !.flushed = FALSE, !.retcode = 1 ] }

\* do_fetch_batch: the UIDs of the items that carry a message, in order
RECURSIVE MessageUids(_)
MessageUids(data) ==
    IF data = << >> THEN << >>
    ELSE (IF { "UID", "BODY[HEADER]", "BODY[TEXT]" } \subseteq Head(data).attrs
          THEN << Head(data).uid >> ELSE << >>)
         \o MessageUids(Tail(data))

\* what the delivery of a batch can meet: per message, and for --maildir the
\* flock of D/new (`lock`) and its fsync, unlock and close (`dirsync`)
BatchOutcomes(uids) ==
    { o \in [ msg : [ Range(uids) -> MessageOutcomes ],
              lock : BOOLEAN, dirsync : BOOLEAN ] :
        /\ ~cfg.maildir => o.lock /\ o.dirsync
        \* nothing is renamed or synced without the lock
        /\ ~o.lock => o.dirsync /\ \A u \in Range(uids) : o.msg[u].renamed }

OutcomeCost(o) ==
    Cardinality({ u \in DOMAIN o.msg : o.msg[u] # Smooth })
    + (IF o.lock THEN 0 ELSE 1) + (IF o.dirsync THEN 0 ELSE 1)

\* MdaDelivery, were the exit status of the MDA not looked at
MdaDeliveryAnyStatus(uids, o) ==
    LET ok(u) == o.msg[u].flushed
        ko(u) == ~ok(u)
    IN  [ done_uids |-> SelectSeq(uids, ok), failed_uids |-> SelectSeq(uids, ko),
          errors |-> << >> ]

\* do_fetch_batch, delivery via --mda
MdaDelivery(uids, o) ==
    LET ok(u) == o.msg[u].retcode = 0 /\ o.msg[u].flushed
        ko(u) == ~ok(u)
    IN  [ done_uids |-> SelectSeq(uids, ok), failed_uids |-> SelectSeq(uids, ko),
          errors |-> << >> ]

\* MaildirDelivery, were the files renamed whether or not D/new got locked
MaildirDeliveryUnlocked(uids, o) ==
    LET written(u) == o.msg[u].flushed /\ o.msg[u].fsynced
        unwritten(u) == ~written(u)
    IN  [ done_uids |-> SelectSeq(uids, written),
          failed_uids |-> SelectSeq(uids, unwritten),
          errors |-> IF o.lock /\ o.dirsync THEN << >> ELSE << Msg("fetch", "sync") >> ]

\* MaildirDelivery, were the renamed files still reported as delivered when the
\* fsync of D/new fails
MaildirDeliveryNoRollback(uids, o) ==
    LET written(u) == o.msg[u].flushed /\ o.msg[u].fsynced /\ o.msg[u].renamed
        unwritten(u) == ~written(u)
    IN  IF ~o.lock
        THEN [ done_uids |-> << >>, failed_uids |-> uids,
               errors |-> << Msg("fetch", "lock") >> ]
        ELSE [ done_uids |-> SelectSeq(uids, written),
               failed_uids |-> SelectSeq(uids, unwritten),
               errors |-> IF o.dirsync THEN << >> ELSE << Msg("fetch", "sync") >> ]

\* do_fetch_batch, delivery to --maildir: write, fsync the batch, lock D/new,
\* rename, fsync D/new
MaildirDelivery(uids, o) ==
    LET written(u) == o.msg[u].flushed
        unwritten(u) == ~written(u)
        fsynced(u) == o.msg[u].fsynced
        unsynced(u) == ~fsynced(u)
        renamed(u) == o.msg[u].renamed
        unrenamed(u) == ~renamed(u)
        unsynced_ == SelectSeq(uids, written)
        synced == SelectSeq(unsynced_, fsynced)
        failed1 == SelectSeq(uids, unwritten) \o SelectSeq(unsynced_, unsynced)
        done == SelectSeq(synced, renamed)
        failed2 == failed1 \o SelectSeq(synced, unrenamed)
    IN  IF ~o.lock
        THEN [ done_uids |-> << >>, failed_uids |-> failed1 \o synced,
               errors |-> << Msg("fetch", "lock") >> ]
        ELSE IF ~o.dirsync
        THEN [ done_uids |-> << >>, failed_uids |-> failed2 \o done,
               errors |-> << Msg("fetch", "sync") >> ]
        ELSE [ done_uids |-> done, failed_uids |-> failed2, errors |-> << >> ]

Delivery(uids, o) ==
    IF cfg.maildir THEN MaildirDelivery(uids, o) ELSE MdaDelivery(uids, o)

\* Verdict, were every batch with an undelivered message to abort the fetch
VerdictAbortsOnAny(num_delivered, num_undelivered) ==
    IF num_undelivered > 0 /\ cfg.paranoid # "yolo"
    THEN IF cfg.paranoid = "paranoid" /\ num_delivered > 0
         THEN "CatastrophicFailure" ELSE "AccountSoftFailure"
    ELSE "store"

\* do_fetch_batch, after the counters: what the delivery mode makes of the batch
Verdict(num_delivered, num_undelivered) ==
    IF num_undelivered > 0 /\ cfg.paranoid # "yolo"
    THEN IF num_delivered = 0 THEN "AccountSoftFailure"
         ELSE IF cfg.paranoid = "paranoid" THEN "CatastrophicFailure"
         ELSE "store"
    ELSE "store"

(* ------------------------------ do_store ------------------------------ *)

MarkMethods == { "seen", "unseen", "flagged", "unflagged" }
DeleteMethods == { "delete", "delete-noexpunge" }

\* do_folder_action of `delete`, were --method auto to look at the host only
ResolveMethodOnAnyFolder(method, host, folder) ==
    IF method = "auto"
    THEN IF host = "imap.gmail.com" THEN "gmail-trash" ELSE "delete"
    ELSE method

\* do_folder_action of `delete`: the method of this folder
ResolveMethod(method, host, folder) ==
    IF method = "auto"
    THEN IF host = "imap.gmail.com" /\ folder # "[Gmail]/Trash"
         THEN "gmail-trash" ELSE "delete"
    ELSE method

\* do_store: the arguments of UID STORE for each method
StoreArgs(method) ==
    CASE method = "seen" -> "+FLAGS.SILENT \\Seen"
      [] method = "unseen" -> "-FLAGS.SILENT \\Seen"
      [] method = "flagged" -> "+FLAGS.SILENT \\Flagged"
      [] method = "unflagged" -> "-FLAGS.SILENT \\Flagged"
      [] method \in DeleteMethods -> "+FLAGS.SILENT \\Deleted"
      [] method = "gmail-trash" -> "+X-GM-LABELS \\Trash"

\* do_store: the commands one turn of the loop sends
StoreCommands(method, to_store, typ) ==
    << Sent("UID STORE", to_store, StoreArgs(method), typ, << >>) >>
    \o (IF typ = "OK" /\ method = "delete"
        THEN << Sent("EXPUNGE", << >>, "", "OK", << >>) >> ELSE << >>)

\* do_store, were it to count the messages of a rejected UID STORE too
StoreCountAnyAnswer(acc, by, method, to_store, typ) ==
    IF method \in DeleteMethods
    THEN [ acc EXCEPT !.num_deleted = @ + Len(to_store) ]
    ELSE IF method = "gmail-trash"
    THEN [ acc EXCEPT !.num_trashed = @ + Len(to_store) ]
    ELSE [ acc EXCEPT !.num_marked = @ + Len(to_store) ]

\* do_store: the counters after one turn of the loop
StoreCount(acc, by, method, to_store, typ) ==
    IF typ = "OK"
    THEN IF method \in DeleteMethods
         THEN [ acc EXCEPT !.num_deleted = @ + Len(to_store) ]
         ELSE IF method = "gmail-trash"
         THEN [ acc EXCEPT !.num_trashed = @ + Len(to_store) ]
         ELSE [ acc EXCEPT !.num_marked = @ + Len(to_store) ]
    ELSE account_error(acc, Msg(by, "STORE"))

\* the server: what a UID STORE answered OK (and the EXPUNGE after it) changes
StoreApplied(s, method, to_store, typ) ==
    IF typ # "OK" THEN s
    ELSE CASE method = "seen" -> [ s EXCEPT !.seen = @ \cup Range(to_store) ]
           [] method = "unseen" -> [ s EXCEPT !.seen = @ \ Range(to_store) ]
           [] method = "delete" ->
                [ s EXCEPT !.deleted = @ \cup Range(to_store),
                           !.gone = @ \cup s.deleted \cup Range(to_store) ]
           [] method = "delete-noexpunge" ->
                [ s EXCEPT !.deleted = @ \cup Range(to_store) ]
           [] method = "flagged" -> [ s EXCEPT !.flagged = @ \cup Range(to_store) ]
           [] method = "unflagged" -> [ s EXCEPT !.flagged = @ \ Range(to_store) ]
           \* the messages leave the folder for [Gmail]/Trash
           [] method = "gmail-trash" -> [ s EXCEPT !.gone = @ \cup Range(to_store) ]
           [] OTHER -> s


(* ------------------------------- hooks -------------------------------- *)

\* do_folder_action, were it to queue the hooks without looking at the queue
EnqueueEach(pending, cmds) == pending \o cmds

\* do_folder_action: `for hook in cfg.new_mail_cmd: if hook not in
\* state.pending_hooks: state.pending_hooks.append(hook)`
RECURSIVE Enqueue(_, _)
Enqueue(pending, cmds) ==
    IF cmds = << >> THEN pending
    ELSE Enqueue(IF Head(cmds) \in Range(pending) THEN pending
                 ELSE Append(pending, Head(cmds)),
                 Tail(cmds))

\* the positions inside do_fetch
InFetch(at) == at \in { "probe", "pack", "batch", "deliver", "store" }

\* do_folder_action of `fetch`: the finally clause around do_fetch, run when
\* do_fetch returns or raises: the hooks are queued when the visit delivered
\* something (`fetch` is the first sub-command: old_num_delivered is that of
\* account.reset()).  History: the messages counted as delivered by the step.
HooksStep ==
    hooks' =
        [ hooks EXCEPT
            !.pending =
                IF /\ InFetch(pc) /\ ~InFetch(pc') /\ Command = "fetch"
                   /\ account'[acct].num_delivered - AccountReset.num_delivered > 0
                THEN Enqueue(@, hooks.new_mail_cmd)
                ELSE @,
            !.count =
                IF InFetch(pc)
                THEN @ + account'[acct].num_delivered - account[acct].num_delivered
                ELSE @ ]

(* ------------------------------ signals ------------------------------- *)

\* an interrupt signal was delayed and waits for the next safe point
want_stop == sig.delayed # "none"

\* do_store, were its loop to check for delayed signals on every call
StoreSafePointAlways == TRUE

\* do_store, were its loop never to check for delayed signals
StoreSafePointNever == FALSE

\* do_store: `if interruptable: raise_delayed_signals()`
StoreSafePoint == loc.interruptable

\* the positions of a cycle that call raise_delayed_signals(): each account of
\* for_each_account, each folder of for_each_folder_, each size probe of
\* do_fetch, the start of do_fetch_batch, each turn of an interruptable do_store
SafePoint ==
    \/ pc = "account" /\ acct <= NumAccounts
    \/ pc = "folder"
    \/ pc = "probe" /\ Len(loc.message_uids) > 0
    \/ pc = "batch"
    \/ pc = "store" /\ StoreSafePoint

\* raise_delayed_signals() raises: the process is at a safe point and a signal
\* was delayed
raise_delayed_signals == SafePoint /\ want_stop

\* the positions inside `try: ... finally: srv.logout() or srv.shutdown()`
InSession ==
    pc \in { "folder", "search", "probe", "pack", "batch", "deliver", "store",
             "logout" }

\* history: srv.shutdown(), the socket is closed without a LOGOUT
Shutdown == Sent("shutdown", << >>, "", "", << >>)

\* for_each_account, were its finally clause to log out after every exception
UnwoundLoggingOut ==
    IF InSession THEN Append(wire, Sent("LOGOUT", << >>, "", "BYE", << >>)) ELSE wire

\* the exception leaves for_each_account: `except BaseException: do_logout =
\* False; raise`, then `srv.shutdown()` when a session is open
Unwound == IF InSession THEN Append(wire, Shutdown) ELSE wire

\* the process runs: it is neither at its end nor killed by an exception
Running ==
    /\ pc \notin { "dead", "interrupted", "aborted" }
    /\ ~(pc = "done" /\ poll.every = << >>)

\* the part of the program that a signal meets
Phase == IF pc \in { "sleep", "countdown" } THEN pc ELSE "cycle"

\* sig_unsleep, were it to raise outside of the sleep too
sig_unsleep_anywhere == TRUE

\* sig_unsleep: SIGUSR1 raises only while the program sleeps
sig_unsleep == pc = "sleep"

\* do_sleep, were it to go on after every signal
do_sleep_goes_on_after_any(s) == TRUE

\* do_sleep: `except SignalInterrupt as exc: if exc.signum != SIGINT: raise`
do_sleep_goes_on_after(s) == s = "SIGINT"

\* a signal arrives
\*   in a cycle: the handler delays the first interrupt signal and raises on
\*       the second; SIGUSR1 raises nothing
\*   in soft_sleep of do_sleep: the sleep ends; do_sleep goes on to the
\*       countdown after SIGUSR1 and SIGINT and re-raises the others
\*   in the countdown of do_sleep, `with yes_signals()`: an interrupt signal
\*       raises at once
Signal ==
    /\ Running
    /\ sig.left > 0
    /\ \E s \in Signals :
         LET got == [ sig EXCEPT !.left = @ - 1, !.last = s,
                        !.first = IF s # "SIGUSR1" /\ @.signum = "none"
                                  THEN [ signum |-> s, cycle |-> poll.cycle,
                                         during |-> Phase ]
                                  ELSE @,
                        !.wakes = IF s = "SIGUSR1"
                                  THEN Append(@, [ cycle |-> poll.cycle,
                                                   during |-> Phase ])
                                  ELSE @ ]
         IN  IF s = "SIGUSR1"
             THEN /\ sig' = got
                  /\ IF sig_unsleep
                     THEN /\ pc' = IF pc = "sleep" THEN "countdown" ELSE "interrupted"
                          /\ wire' = IF pc = "sleep" THEN wire ELSE Unwound
                     ELSE UNCHANGED << pc, wire >>
             ELSE CASE pc = "sleep" ->
                         /\ sig' = got
                         /\ pc' = IF do_sleep_goes_on_after(s) THEN "countdown"
                                  ELSE "interrupted"
                         /\ wire' = wire
                    [] pc = "countdown" ->
                         /\ sig' = got
                         /\ pc' = "interrupted"
                         /\ wire' = wire
                    [] OTHER ->
                         IF want_stop
                         THEN /\ sig' = got
                              /\ pc' = "aborted"
                              /\ wire' = Unwound
                         ELSE /\ sig' = [ got EXCEPT !.delayed = s, !.at = Len(wire) ]
                              /\ UNCHANGED << pc, wire >>
    /\ UNCHANGED << cfg, mailbox, srv, account, acct, sub, loc, outcome,
                    delivered, budget, poll >>
    /\ HooksStep
    /\ UNCHANGED << codec, fs >>

\* a safe point of the cycle raises the delayed signal: SignalInterrupt leaves
\* for_each_account and the process ends
Interrupted ==
    /\ raise_delayed_signals
    /\ pc' = "interrupted"
    /\ wire' = Unwound
    /\ UNCHANGED << cfg, mailbox, srv, account, acct, sub, loc, outcome,
                    delivered, budget, sig, poll >>
    /\ HooksStep
    /\ UNCHANGED << codec, fs >>

(* --------------------- for_each_account, the session ------------------ *)

\* for_each_account, were an account failure to end the loop
AfterAccountFailureStop == NumAccounts + 1

\* for_each_account: `except AccountFailure`, `except IMAP4.abort` and `except
\* OSError` record the error inside the loop, which goes on with the next account
AfterAccountFailure == acct + 1

\* EmitAccount.__call__, were --auth-allow-login to be enough on every socket
allow_login_on_any_socket(c) == c.allow_login

\* EmitAccount.__call__: Account.allow_login; over the `plain` socket the
\* LOGIN command needs --auth-allow-plain too
allow_login(c) == c.allow_login /\ (c.socket = "plain" => c.allow_plain)

\* for_each_account: the authentication method, by the words of the
\* CAPABILITY answer and Account.allow_login; "none" raises AccountFailure
AuthMethod(capabilities, allowed) ==
    IF "AUTH=CRAM-MD5" \in Range(capabilities) THEN "AUTHENTICATE"
    ELSE IF allowed THEN "LOGIN"
    ELSE "none"

\* the authentication command and its answer; AUTHENTICATE CRAM-MD5 answers
\* the server's challenge with the user name and an HMAC of the challenge
Credentials(method, typ) ==
    Sent(method, << >>, IF method = "AUTHENTICATE" THEN "CRAM-MD5" ELSE "", typ, << >>)

\* for_each_folder_multi, were the search filters made once, before the
\* first cycle
RenderedOnce(now) == poll.rendered

\* for_each_folder_multi: under --every the search filters of all the
\* sub-commands are made anew, with one `now = time.time_ns()`
Rendered(now) == IF poll.every # << >> THEN now ELSE poll.rendered

\* for_each_account: account.reset(), connect, CAPABILITY, authentication; a
\* server without IMAP4rev1, or no permitted method, raises AccountFailure
\* before any credentials are sent: the socket is shut down, the error is
\* recorded and the loop goes on with the next account
Login ==
    /\ pc = "account" /\ acct <= NumAccounts
    /\ ~raise_delayed_signals
    /\ LET capabilities == srv[acct].capabilities
           method == AuthMethod(capabilities, allow_login(cfg))
           hello == Sent("CAPABILITY", << >>, "", "OK", capabilities)
       IN  IF "IMAP4rev1" \notin Range(capabilities) \/ method = "none"
           THEN /\ account' = [ account EXCEPT ![acct] =
                                  account_error(reset(account[acct]),
                                                Msg("login", "AccountFailure")) ]
                /\ wire' = << hello, Shutdown >>
                /\ acct' = AfterAccountFailure
                /\ UNCHANGED << pc, sub, loc, poll >>
           ELSE /\ account' = [ account EXCEPT ![acct] = reset(account[acct]) ]
                /\ wire' = << hello, Credentials(method, "OK") >>
                /\ sub' = 1
                /\ pc' = "folder"
                /\ loc' = NoLocals
                /\ poll' = [ poll EXCEPT !.rendered = Rendered(poll.now) ]
                /\ UNCHANGED acct
    /\ UNCHANGED << cfg, mailbox, srv, outcome, delivered, budget >>
    /\ UNCHANGED sig
    /\ HooksStep
    /\ UNCHANGED << codec, fs >>

\* for_each_account: connect raises AccountFailure, or CAPABILITY is refused,
\* or the authentication is refused, and the socket is shut down; the error is
\* recorded and the loop goes on with the next account
LoginFails ==
    /\ pc = "account" /\ acct <= NumAccounts
    /\ ~raise_delayed_signals
    /\ budget > 0
    /\ budget' = budget - 1
    /\ account' = [ account EXCEPT ![acct] = account_error(reset(account[acct]), Msg("login", "AccountFailure")) ]
    /\ LET capabilities == srv[acct].capabilities
           method == AuthMethod(capabilities, allow_login(cfg))
       IN  \E step \in { "connect", "CAPABILITY", "LOGIN" } :
             /\ step = "LOGIN" => "IMAP4rev1" \in Range(capabilities) /\ method # "none"
             /\ wire' = CASE step = "connect" -> << >>
                         [] step = "CAPABILITY" ->
                              << Sent("CAPABILITY", << >>, "", "NO", << >>), Shutdown >>
                         [] OTHER ->
                              << Sent("CAPABILITY", << >>, "", "OK", capabilities),
                                 Credentials(method, "NO"), Shutdown >>
    /\ acct' = AfterAccountFailure
    /\ UNCHANGED << cfg, mailbox, srv, pc, sub, loc, outcome, delivered >>
    /\ UNCHANGED << sig, poll >>
    /\ HooksStep
    /\ UNCHANGED << codec, fs >>

\* for_each_account: srv.logout() in the finally clause, then the next account
Logout ==
    /\ pc = "logout"
    /\ wire' = Append(wire, Sent("LOGOUT", << >>, "", "BYE", << >>))
    /\ acct' = acct + 1
    /\ pc' = "account"
    /\ outcome' = NoOutcome
    /\ UNCHANGED << cfg, mailbox, srv, account, sub, loc, delivered, budget >>
    /\ UNCHANGED << sig, poll >>
    /\ HooksStep
    /\ UNCHANGED << codec, fs >>

\* for_each_account: every account was visited; the pending hooks are run
\* and the queue is emptied
CycleEnd ==
    /\ pc = "account" /\ acct > NumAccounts
    /\ pc' = "done"
    /\ UNCHANGED << cfg, mailbox, srv, account, acct, sub, loc, wire, outcome,
                    delivered, budget >>
    /\ UNCHANGED << sig, poll >>
    /\ hooks' = [ hooks EXCEPT !.ran = hooks.pending, !.pending = << >> ]
    /\ UNCHANGED << codec, fs >>

(* ------------------- for_each_folder_, do_folder_action --------------- *)

\* for_each_folder_multi and for_each_folder_: the folder is done; the next
\* sub-command follows, or the session ends
AfterVisit == IF sub + 1 > Len(Subcfgs) THEN "logout" ELSE "folder"

\* for_each_folder_: func returned or raised FolderFailure; srv.close()
EndVisit(acc, w, s) ==
    /\ account' = [ account EXCEPT ![acct] = acc ]
    /\ srv' = [ srv EXCEPT ![acct] = s ]
    /\ wire' = Append(w, Sent("CLOSE", << >>, "", "OK", << >>))
    /\ sub' = sub + 1
    /\ pc' = AfterVisit
    /\ loc' = NoLocals

\* for_each_folder_: SELECT answers OK
Select ==
    /\ pc = "folder"
    /\ ~raise_delayed_signals
    /\ wire' = Append(wire, Sent("SELECT", << >>, Folders[1], "OK", << >>))
    /\ pc' = "search"
    /\ UNCHANGED << cfg, mailbox, srv, account, acct, sub, loc, outcome,
                    delivered, budget >>
    /\ UNCHANGED << sig, poll >>
    /\ HooksStep
    /\ UNCHANGED << codec, fs >>

\* for_each_folder_: SELECT is rejected; the folder is skipped
SelectRejected ==
    /\ pc = "folder"
    /\ ~raise_delayed_signals
    /\ budget > 0
    /\ budget' = budget - 1
    /\ wire' = Append(wire, Sent("SELECT", << >>, Folders[1], "NO", << >>))
    /\ account' = [ account EXCEPT ![acct] = account_error(@, Msg(Command, "SELECT")) ]
    /\ sub' = sub + 1
    /\ pc' = AfterVisit
    /\ UNCHANGED << cfg, mailbox, srv, acct, loc, outcome, delivered >>
    /\ UNCHANGED << sig, poll >>
    /\ HooksStep
    /\ UNCHANGED << codec, fs >>

\* do_folder_action: SEARCH is rejected, FolderFailure
SearchRejected ==
    /\ pc = "search"
    /\ budget > 0
    /\ budget' = budget - 1
    /\ EndVisit(account_error(account[acct], Msg(Command, "SEARCH")),
                Append(wire, SearchSent(Command, "NO", << >>)),
                srv[acct])
    /\ UNCHANGED << cfg, mailbox, acct, outcome, delivered >>
    /\ UNCHANGED << sig, poll >>
    /\ HooksStep
    /\ UNCHANGED << codec, fs >>

\* do_folder_action, were --dry-run to spare `mark`
dry_run_spares_mark(command) == cfg.dry_run /\ command # "mark"

\* do_folder_action: `if cfg.dry_run: ...; return`, after the SEARCH
dry_run(command) == cfg.dry_run

\* do_folder_action of `fetch`: SEARCH, then do_fetch unless --dry-run is given
\* or nothing matched
SearchFetch ==
    /\ pc = "search" /\ Command = "fetch"
    /\ LET message_uids == SearchResult(acct, "fetch")
           w == Append(wire, SearchSent("fetch", "OK", message_uids))
       IN  IF dry_run("fetch") \/ message_uids = << >>
           THEN EndVisit(account[acct], w, srv[acct])
           ELSE /\ wire' = w
                /\ loc' = [ NoLocals EXCEPT !.message_uids = message_uids ]
                /\ pc' = "probe"
                /\ UNCHANGED << srv, account, sub >>
    /\ UNCHANGED << cfg, mailbox, acct, outcome, delivered, budget >>
    /\ UNCHANGED << sig, poll >>
    /\ HooksStep
    /\ UNCHANGED << codec, fs >>

\* do_folder_action of `mark`: SEARCH, then do_store with the marking unless
\* --dry-run is given or nothing matched
SearchMark ==
    /\ pc = "search" /\ Command = "mark"
    /\ LET message_uids == SearchResult(acct, "mark")
           w == Append(wire, SearchSent("mark", "OK", message_uids))
       IN  IF dry_run("mark") \/ message_uids = << >>
           THEN EndVisit(account[acct], w, srv[acct])
           ELSE /\ wire' = w
                /\ loc' = [ NoLocals EXCEPT !.store_uids = message_uids,
                                            !.method = cfg.mark,
                                            !.interruptable = TRUE ]
                /\ pc' = "store"
                /\ UNCHANGED << srv, account, sub >>
    /\ UNCHANGED << cfg, mailbox, acct, outcome, delivered, budget >>
    /\ UNCHANGED << sig, poll >>
    /\ HooksStep
    /\ UNCHANGED << codec, fs >>

\* Barrier, were it to look at the undelivered messages only
BarrierOnUndelivered(acc) == acc.num_undelivered > 0

\* do_folder_action: `delete` does nothing when the account has errors
Barrier(acc) == Len(acc.errors) > 0

\* do_folder_action of `delete`: SEARCH, then nothing with --dry-run, then the
\* barrier; else do_store unless nothing matched
SearchDelete ==
    /\ pc = "search" /\ Command = "delete"
    /\ LET message_uids == SearchResult(acct, "delete")
           w == Append(wire, SearchSent("delete", "OK", message_uids))
       IN  IF dry_run("delete")
           THEN EndVisit(account[acct], w, srv[acct])
           ELSE IF Barrier(account[acct])
           THEN EndVisit(account_error(account[acct], Msg("delete", "skipped")),
                         w, srv[acct])
           ELSE IF message_uids = << >>
           THEN EndVisit(account[acct], w, srv[acct])
           ELSE /\ wire' = w
                /\ loc' = [ NoLocals EXCEPT !.store_uids = message_uids,
                                            !.method = ResolveMethod(cfg.method, cfg.host,
                                                                    Folders[1]),
                                            !.interruptable = TRUE ]
                /\ pc' = "store"
                /\ UNCHANGED << srv, account, sub >>
    /\ UNCHANGED << cfg, mailbox, acct, outcome, delivered, budget >>
    /\ UNCHANGED << sig, poll >>
    /\ HooksStep
    /\ UNCHANGED << codec, fs >>


(* --------------------------- do_fetch, steps -------------------------- *)

\* do_fetch: one size probe, UID FETCH (RFC822.SIZE) of the next fetch_number
\* UIDs, and the reading of its answer
Probe ==
    /\ pc = "probe" /\ Len(loc.message_uids) > 0
    /\ ~raise_delayed_signals
    /\ Len(wire) < MaxCommands
    /\ LET to_fetch == SliceTo(loc.message_uids, cfg.fetch_number)
           rest == SliceFrom(loc.message_uids, cfg.fetch_number)
           items == [ i \in 1 .. Len(to_fetch) |-> SizeItem(acct, to_fetch[i]) ]
       IN  \E r \in AnswersOrShort(items, to_fetch) \cup { Rejected } :
             LET p == ProbeAnswered(account[acct], r, to_fetch)
             IN  /\ r.cost <= budget
                 /\ budget' = budget - r.cost
                 /\ wire' = Append(wire, Sent("UID FETCH", to_fetch, "(RFC822.SIZE)",
                                              r.typ, r.data))
                 /\ account' = [ account EXCEPT ![acct] = p.acc ]
                 /\ loc' = [ loc EXCEPT !.message_uids = rest, !.new = p.new ]
                 /\ pc' = IF p.ok THEN "pack" ELSE "probe"
    /\ UNCHANGED << cfg, mailbox, srv, acct, sub, outcome, delivered >>
    /\ UNCHANGED << sig, poll >>
    /\ HooksStep
    /\ UNCHANGED << codec, fs >>

\* do_fetch: one turn of `while True`: the probed messages join the running
\* batch; when some are left over the batch is fetched
Pack ==
    /\ pc = "pack"
    /\ LET r == PackTurn(loc.new, loc.batch, loc.batch_total)
       IN  /\ loc' = [ loc EXCEPT !.batch = r.batch, !.batch_total = r.batch_total,
                                  !.new = r.leftovers, !.final = FALSE ]
           /\ pc' = IF r.break THEN "probe" ELSE "batch"
    /\ UNCHANGED << cfg, mailbox, srv, account, acct, sub, wire, outcome,
                    delivered, budget >>
    /\ UNCHANGED << sig, poll >>
    /\ HooksStep
    /\ UNCHANGED << codec, fs >>

\* do_fetch: every UID was probed; the last call of do_fetch_batch
LastBatch ==
    /\ pc = "probe" /\ Len(loc.message_uids) = 0
    /\ loc' = [ loc EXCEPT !.final = TRUE ]
    /\ pc' = "batch"
    /\ UNCHANGED << cfg, mailbox, srv, account, acct, sub, wire, outcome,
                    delivered, budget >>
    /\ UNCHANGED << sig, poll >>
    /\ HooksStep
    /\ UNCHANGED << codec, fs >>

\* do_fetch_batch returns: do_fetch goes on packing, or, after its last call,
\* do_folder_action returns
ReturnFromBatch(acc, w, s) ==
    IF loc.final
    THEN EndVisit(acc, w, s)
    ELSE /\ account' = [ account EXCEPT ![acct] = acc ]
         /\ srv' = [ srv EXCEPT ![acct] = s ]
         /\ wire' = w
         /\ sub' = sub
         /\ pc' = "pack"
         /\ loc' = [ NoLocals EXCEPT !.message_uids = loc.message_uids,
                                     !.new = loc.new ]

\* do_fetch, the loop over the answer of the size probe: the exception that
\* leaves it ("": none): ValueError from imap_parse, or KeyError from
\* to_fetch_set.remove(uid), which no try statement encloses
RECURSIVE ProbeLoopRaises(_, _)
ProbeLoopRaises(data, to_fetch_set) ==
    IF data = << >> THEN ""
    ELSE LET el == Head(data)
         IN  IF "line" \in DOMAIN el /\ imap_parse(el.line, << >>).err # ""
             THEN "ValueError"
             ELSE IF ~({ "UID", "RFC822.SIZE" } \subseteq el.attrs)
             THEN ProbeLoopRaises(Tail(data), to_fetch_set)
             ELSE IF el.uid \notin to_fetch_set
             THEN "KeyError"
             ELSE ProbeLoopRaises(Tail(data), to_fetch_set \ { el.uid })

\* an item the parser rejects, the line `a ("a`: its quote is not closed
MalformedItem ==
    [ attrs |-> {}, uid |-> 0, size |-> 0, line |-> << "a", " ", "(", "\"", "a" >> ]

\* the data of an OK answer to the size probe that holds every requested item
\* and then one of them again, or the item of a message that was not asked
\* for, or an item that cannot be parsed
BrokenAnswers(items, a) ==
    { Append(items, x) :
        x \in Range(items)
              \cup { [ attrs |-> { "UID", "RFC822.SIZE" },
                       uid |-> Len(mailbox[a]) + 1, size |-> 1 ],
                     MalformedItem } }

\* do_fetch: the size probe is answered with such data; the exception leaves
\* do_fetch and for_each_account (`except BaseException: do_logout = False;
\* raise`, then srv.shutdown()) and ends the process
ProbeRaises ==
    /\ pc = "probe" /\ Len(loc.message_uids) > 0
    /\ ~raise_delayed_signals
    /\ Len(wire) < MaxCommands
    /\ budget >= 1
    /\ budget' = budget - 1
    /\ LET to_fetch == SliceTo(loc.message_uids, cfg.fetch_number)
           items == [ i \in 1 .. Len(to_fetch) |-> SizeItem(acct, to_fetch[i]) ]
       IN  \E data \in BrokenAnswers(items, acct) :
             /\ ProbeLoopRaises(data, Range(to_fetch)) # ""
             /\ wire' = wire \o << Sent("UID FETCH", to_fetch, "(RFC822.SIZE)",
                                        "OK", data), Shutdown >>
    /\ pc' = "dead"
    /\ loc' = NoLocals
    /\ UNCHANGED << cfg, mailbox, srv, account, acct, sub, outcome, delivered >>
    /\ UNCHANGED << sig, poll >>
    /\ HooksStep
    /\ UNCHANGED << codec, fs >>

\* do_fetch_batch: nothing to fetch
BatchEmpty ==
    /\ pc = "batch" /\ Len(loc.batch) = 0
    /\ ~raise_delayed_signals
    /\ ReturnFromBatch(account[acct], wire, srv[acct])
    /\ UNCHANGED << cfg, mailbox, acct, outcome, delivered, budget >>
    /\ UNCHANGED << sig, poll >>
    /\ HooksStep
    /\ UNCHANGED << codec, fs >>

\* do_fetch_batch: UID FETCH (BODY.PEEK[HEADER] BODY.PEEK[TEXT]) of the batch
BodyFetch ==
    /\ pc = "batch" /\ Len(loc.batch) > 0
    /\ ~raise_delayed_signals
    /\ LET items == [ i \in 1 .. Len(loc.batch) |-> BodyItem(loc.batch[i]) ]
       IN  \E r \in AnswersOrShort(items, loc.batch) \cup { Rejected } :
           LET w == Append(wire, Sent("UID FETCH", loc.batch,
                                      "(BODY.PEEK[HEADER] BODY.PEEK[TEXT])",
                                      r.typ, r.data))
           IN
             /\ r.cost <= budget
             /\ budget' = budget - r.cost
             /\ IF r.typ # "OK"
                THEN ReturnFromBatch(
                         account_error([ account[acct] EXCEPT
                             !.num_undelivered = @ + Len(loc.batch) ],
                             Msg("fetch", "FETCH")),
                         w, srv[acct])
                ELSE /\ wire' = w
                     /\ loc' = [ loc EXCEPT !.data = r.data ]
                     /\ pc' = "deliver"
                     /\ UNCHANGED << srv, account, sub >>
    /\ outcome' = NoOutcome
    /\ UNCHANGED << cfg, mailbox, acct, delivered >>
    /\ UNCHANGED << sig, poll >>
    /\ HooksStep
    /\ UNCHANGED << codec, fs >>

\* the UIDs of a batch whose delivery completed: the MDA exited with status 0
\* after its input was flushed, or the file was written, fsynced and renamed
\* into D/new under the lock and the fsync of D/new succeeded
Completed(o) ==
    { u \in DOMAIN o.msg :
        IF cfg.maildir
        THEN o.msg[u].flushed /\ o.msg[u].fsynced /\ o.lock /\ o.msg[u].renamed
             /\ o.dirsync
        ELSE o.msg[u].flushed /\ o.msg[u].retcode = 0 }

\* do_fetch_batch: the messages of the answer are delivered and counted, then
\* the delivery mode decides; do_store follows unless an exception is raised
Deliver ==
    /\ pc = "deliver"
    /\ LET uids == MessageUids(loc.data)
           conflicts == Conflicts(loc.data, { "UID", "BODY[HEADER]", "BODY[TEXT]" })
       IN  \E o \in BatchOutcomes(uids) :
             LET d == Delivery(uids, o)
                 num_delivered == Len(d.done_uids)
                 num_undelivered == Len(d.failed_uids)
                 counted == [ account_errors(account[acct], conflicts \o d.errors)
                              EXCEPT !.num_delivered = @ + num_delivered,
                                     !.num_undelivered = @ + num_undelivered ]
                 acc == IF num_undelivered > 0
                        THEN account_error(counted, Msg("fetch", "undelivered"))
                        ELSE counted
                 verdict == Verdict(num_delivered, num_undelivered)
             IN  /\ OutcomeCost(o) <= budget
                 /\ budget' = budget - OutcomeCost(o)
                 /\ outcome' = o
                 /\ delivered' = [ delivered EXCEPT ![acct] = @ \cup Completed(o) ]
                 /\ CASE verdict = "AccountSoftFailure" ->
                           \* caught in for_each_account, which logs out
                           /\ account' = [ account EXCEPT ![acct] =
                                             account_error(acc,
                                                 Msg("fetch", "AccountSoftFailure")) ]
                           /\ pc' = "logout"
                           /\ loc' = NoLocals
                           /\ UNCHANGED << srv, wire, sub >>
                      [] verdict = "CatastrophicFailure" ->
                           \* the socket is shut down and the process ends
                           /\ account' = [ account EXCEPT ![acct] = acc ]
                           /\ pc' = "dead"
                           /\ loc' = NoLocals
                           /\ wire' = Append(wire, Shutdown)
                           /\ UNCHANGED << srv, sub >>
                      [] OTHER ->
                           IF cfg.mark = "noop" \/ Len(d.done_uids) = 0
                           THEN ReturnFromBatch(acc, wire, srv[acct])
                           ELSE /\ account' = [ account EXCEPT ![acct] = acc ]
                                /\ loc' = [ loc EXCEPT !.data = << >>,
                                              !.done_uids = d.done_uids,
                                              !.failed_uids = d.failed_uids,
                                              !.store_uids = d.done_uids,
                                              !.method = cfg.mark,
                                              !.interruptable = FALSE ]
                                /\ pc' = "store"
                                /\ UNCHANGED << srv, wire, sub >>
    /\ UNCHANGED << cfg, mailbox, acct >>
    /\ UNCHANGED << sig, poll >>
    /\ HooksStep
    /\ UNCHANGED << codec, fs >>

\* do_store, were a rejected UID STORE to end its loop
StoreGoesOnIfOk(rest, typ) == Len(rest) > 0 /\ typ = "OK"

\* do_store: `while len(message_uids) > 0`, whatever the last answer was
StoreGoesOn(rest, typ) == Len(rest) > 0

\* do_store: one turn of the loop: UID STORE of the next store_number UIDs (and
\* EXPUNGE for `delete`); after the last turn the caller goes on
Store ==
    /\ pc = "store"
    /\ ~raise_delayed_signals
    /\ Len(wire) < MaxCommands
    /\ LET to_store == SliceTo(loc.store_uids, cfg.store_number)
           rest == SliceFrom(loc.store_uids, cfg.store_number)
       IN  \E typ \in { "OK", "NO" } :
             LET cost == IF typ = "OK" THEN 0 ELSE 1
                 acc == StoreCount(account[acct], Command, loc.method, to_store, typ)
                 s == StoreApplied(srv[acct], loc.method, to_store, typ)
                 w == wire \o StoreCommands(loc.method, to_store, typ)
             IN  /\ cost <= budget
                 /\ budget' = budget - cost
                 /\ IF StoreGoesOn(rest, typ)
                    THEN /\ account' = [ account EXCEPT ![acct] = acc ]
                         /\ srv' = [ srv EXCEPT ![acct] = s ]
                         /\ wire' = w
                         /\ loc' = [ loc EXCEPT !.store_uids = rest ]
                         /\ UNCHANGED << pc, sub >>
                    ELSE IF Command = "fetch"
                    THEN ReturnFromBatch(acc, w, s)
                    ELSE EndVisit(acc, w, s)
    /\ UNCHANGED << cfg, mailbox, acct, outcome, delivered >>
    /\ UNCHANGED << sig, poll >>
    /\ HooksStep
    /\ UNCHANGED << codec, fs >>

(* ------------------- cmd_action and cmd_multi_action ------------------ *)

\* cmd_action, cmd_multi_action: the command line is parsed and described and
\* the search filters are made, with one `now = time.time_ns()`;
\* with --very-dry-run the process exits with status 1, else the accounts are
\* visited
Start ==
    /\ pc = "start"
    /\ pc' = IF cfg.very_dry_run THEN "exit 1" ELSE "account"
    /\ poll' = [ poll EXCEPT !.rendered = poll.now ]
    /\ UNCHANGED << cfg, mailbox, srv, account, acct, sub, loc, wire, outcome,
                    delivered, budget, sig, hooks, codec, fs >>

(* ------------------- the wire codec, applied to a string -------------- *)

\* imap_quote is applied to the string
Quote ==
    /\ codec.stage = "input"
    /\ codec' = [ codec EXCEPT !.stage = "quoted", !.line = imap_quote(codec.input) ]
    /\ UNCHANGED << cfg, mailbox, srv, account, pc, acct, sub, loc, wire, outcome,
                    delivered, budget, sig, poll, hooks, fs >>

\* imap_parse is applied to the string as it is, or to the quoted string
Parse ==
    /\ codec.stage \in { "input", "quoted" }
    /\ LET line == IF codec.stage = "input" THEN codec.input ELSE codec.line
       IN  codec' = [ codec EXCEPT !.stage = "parsed", !.line = line,
                                   !.result = imap_parse(line, codec.literals) ]
    /\ UNCHANGED << cfg, mailbox, srv, account, pc, acct, sub, loc, wire, outcome,
                    delivered, budget, sig, poll, hooks, fs >>

\* do_fetch_batch, one turn of `while len(data) > 0`: the chunks of one line
\* are joined and parsed; an exception of the parser ends the loop
ReadLine ==
    /\ codec.stage = "answer"
    /\ codec.data # << >>
    /\ LET g == Gather(codec.data, << >>, << >>)
           a == Attrs(g.line, g.literals)
       IN  codec' =
             IF a.err # ""
             THEN [ codec EXCEPT !.stage = "raised", !.line = g.line,
                                 !.result = [ err |-> a.err, val |-> codec.result.val ] ]
             ELSE [ codec EXCEPT !.stage = IF g.data = << >> THEN "read" ELSE "answer",
                                 !.line = g.line, !.data = g.data,
                                 !.result = [ err |-> "",
                                              val |-> Append(codec.result.val, a.val) ] ]
    /\ UNCHANGED << cfg, mailbox, srv, account, pc, acct, sub, loc, wire, outcome,
                    delivered, budget, sig, poll, hooks, fs >>

(* ------------------- do_fetch_batch, delivery to --maildir ------------ *)

\* the messages of a batch: header and body are hashed, so that messages of
\* the same octets have one msghash
BatchData ==
    { << [ uid |-> 1, msghash |-> "a" ] >>,
      << [ uid |-> 1, msghash |-> "a" ], [ uid |-> 2, msghash |-> "a" ] >> }

\* do_fetch_batch is called with a batch, by process p; the other process
\* delivers one batch
StartBatch(p) ==
    /\ pc = "maildir"
    /\ fs.proc[p].at = "idle"
    /\ fs.proc[p].batch < (IF p = "this" THEN MaxBatches ELSE 1)
    /\ \E data \in BatchData :
         fs' = [ fs EXCEPT !.proc[p] =
                   [ NoBatch EXCEPT !.at = "write", !.batch = fs.proc[p].batch + 1,
                                    !.data = data ] ]
    /\ UNCHANGED << cfg, mailbox, srv, account, pc, acct, sub, loc, wire, outcome,
                    delivered, budget, sig, poll, hooks, codec >>

\* `while True: tmp_path = ...; tmp_num += 1; open(tmp_path, "xb")`: the
\* first tmp_num from n on whose name is not taken
RECURSIVE FreeTmpNum(_, _, _, _)
FreeTmpNum(tmp, p, batch, n) ==
    IF << p, batch, n >> \in tmp THEN FreeTmpNum(tmp, p, batch, n + 1) ELSE n

\* do_fetch_batch, the loop over the answer, for the messages items[i..]:
\* each message is written to a new file of D/tmp and joins `unsynced`; when
\* open, write or flush raises, the file is unlinked and the UID has failed
RECURSIVE WriteLoop(_, _, _, _, _, _)
WriteLoop(p, batch, items, written, i, st) ==
    IF i > Len(items) THEN st
    ELSE LET n == FreeTmpNum(st.tmp, p, batch, st.tmp_num)
             tmp_path == << p, batch, n >>
         IN  WriteLoop(p, batch, items, written, i + 1,
                 IF written[i]
                 THEN [ st EXCEPT !.tmp = @ \cup { tmp_path },
                                  !.tmp_num = n + 1,
                                  !.unsynced = Append(@, [ uid |-> items[i].uid,
                                                           msghash |-> items[i].msghash,
                                                           tmp_path |-> tmp_path ]) ]
                 ELSE [ st EXCEPT !.tmp_num = n + 1,
                                  !.failed_uids = Append(@, items[i].uid) ])

\* do_fetch_batch: the answer is read and its messages are written to D/tmp.
\* The parser may raise ValueError at a later message of the answer: nothing
\* in do_fetch_batch catches it
Write(p) ==
    /\ pc = "maildir"
    /\ fs.proc[p].at = "write"
    /\ LET me == fs.proc[p]
       IN  \E read \in 0 .. Len(me.data), written \in [ 1 .. Len(me.data) -> BOOLEAN ] :
             LET cost == Cardinality({ i \in 1 .. read : ~written[i] })
                         + (IF read < Len(me.data) THEN 1 ELSE 0)
                 st == WriteLoop(p, me.batch, SubSeq(me.data, 1, read), written, 1,
                                 [ tmp |-> fs.tmp, tmp_num |-> me.tmp_num,
                                   unsynced |-> << >>, failed_uids |-> << >> ])
             IN  /\ \A i \in read + 1 .. Len(me.data) : written[i]
                 /\ cost <= budget
                 /\ budget' = budget - cost
                 /\ fs' = [ fs EXCEPT
                             !.tmp = st.tmp,
                             !.proc[p] = [ me EXCEPT
                                 !.at = IF read < Len(me.data) THEN "raised" ELSE "fsync",
                                 !.tmp_num = st.tmp_num,
                                 !.unsynced = st.unsynced,
                                 !.failed_uids = st.failed_uids ] ]
    /\ UNCHANGED << cfg, mailbox, srv, account, pc, acct, sub, loc, wire, outcome,
                    delivered, sig, poll, hooks, codec >>

\* do_fetch_batch: `for tf, el in unsynced`: each file is fsynced and closed
\* and joins `synced`, or is unlinked and its UID has failed
Fsync(p) ==
    /\ pc = "maildir"
    /\ fs.proc[p].at = "fsync"
    /\ LET me == fs.proc[p]
       IN  \E fsynced \in [ 1 .. Len(me.unsynced) -> BOOLEAN ] :
             LET ok == { i \in DOMAIN me.unsynced : fsynced[i] }
                 ko == DOMAIN me.unsynced \ ok
                 pick(S) == SelectUids(me.unsynced, { me.unsynced[i] : i \in S })
             IN  /\ Cardinality(ko) <= budget
                 /\ budget' = budget - Cardinality(ko)
                 /\ fs' = [ fs EXCEPT
                             !.tmp = @ \ { me.unsynced[i].tmp_path : i \in ko },
                             !.proc[p] = [ me EXCEPT
                                 !.at = "lock",
                                 !.unsynced = << >>,
                                 !.synced = pick(ok),
                                 !.failed_uids =
                                     @ \o [ i \in 1 .. Len(pick(ko)) |-> pick(ko)[i].uid ] ] ]
    /\ UNCHANGED << cfg, mailbox, srv, account, pc, acct, sub, loc, wire, outcome,
                    delivered, sig, poll, hooks, codec >>

\* flock, were it granted whoever holds the lock
FlockGrantedAlways(locks) == TRUE

\* flock(dirfd, LOCK_EX) returns when no other descriptor of D/new holds the
\* lock, be it one of another process or of this one
FlockGranted(locks) == locks = {}

\* do_fetch_batch: D/new is opened and locked
Lock(p) ==
    /\ pc = "maildir"
    /\ fs.proc[p].at = "lock"
    /\ FlockGranted(fs.locks)
    /\ LET me == fs.proc[p]
       IN  fs' = [ fs EXCEPT
                     !.locks = @ \cup { << p, me.batch >> },
                     !.proc[p] = [ me EXCEPT
                         !.at = IF me.synced = << >> THEN "dirsync" ELSE "pick" ] ]
    /\ UNCHANGED << cfg, mailbox, srv, account, pc, acct, sub, loc, wire, outcome,
                    delivered, budget, sig, poll, hooks, codec >>

\* do_fetch_batch: os.open or flock raises; the synced files are unlinked,
\* their UIDs have failed and the error is recorded
LockFails(p) ==
    /\ pc = "maildir"
    /\ fs.proc[p].at = "lock"
    /\ budget > 0
    /\ budget' = budget - 1
    /\ LET me == fs.proc[p]
       IN  fs' = [ fs EXCEPT
                     !.tmp = @ \ { me.synced[i].tmp_path : i \in DOMAIN me.synced },
                     !.proc[p] = [ me EXCEPT
                         !.at = "count",
                         !.synced = << >>,
                         !.failed_uids =
                             @ \o [ i \in 1 .. Len(me.synced) |-> me.synced[i].uid ],
                         !.errors = Append(@, Msg("fetch", "lock")) ] ]
    /\ UNCHANGED << cfg, mailbox, srv, account, pc, acct, sub, loc, wire, outcome,
                    delivered, sig, poll, hooks, codec >>

\* `while True: msg_path = ...; msg_num += 1; if os.path.exists(msg_path):
\* continue; break`: the first msg_num from n on whose name is not taken
RECURSIVE FreeMsgNum(_, _, _)
FreeMsgNum(new, msghash, n) ==
    IF << msghash, n >> \in DOMAIN new THEN FreeMsgNum(new, msghash, n + 1) ELSE n

\* do_fetch_batch: the name in D/new of the next synced file is chosen
PickName(p) ==
    /\ pc = "maildir"
    /\ fs.proc[p].at = "pick"
    /\ LET me == fs.proc[p]
           msghash == me.synced[1].msghash
       IN  fs' = [ fs EXCEPT !.proc[p] =
                     [ me EXCEPT !.at = "rename",
                                 !.msg_path = << msghash, FreeMsgNum(fs.new, msghash, 0) >> ] ]
    /\ UNCHANGED << cfg, mailbox, srv, account, pc, acct, sub, loc, wire, outcome,
                    delivered, budget, sig, poll, hooks, codec >>

\* the function f with x mapped to y
Put(f, x, y) == [ z \in DOMAIN f \cup { x } |-> IF z = x THEN y ELSE f[z] ]

\* do_fetch_batch: os.rename(tmp_path, msg_path), which replaces a file of
\* that name; when it raises, the temporary file is unlinked and the UID has
\* failed
Rename(p) ==
    /\ pc = "maildir"
    /\ fs.proc[p].at = "rename"
    /\ LET me == fs.proc[p]
           el == me.synced[1]
           rest == Tail(me.synced)
           after == IF rest = << >> THEN "dirsync" ELSE "pick"
       IN  \E renamed \in BOOLEAN :
             /\ ~renamed => budget > 0
             /\ budget' = IF renamed THEN budget ELSE budget - 1
             /\ fs' = [ fs EXCEPT
                         !.tmp = @ \ { el.tmp_path },
                         !.new = IF renamed
                                 THEN Put(@, me.msg_path, << p, me.batch, el.uid >>)
                                 ELSE @,
                         !.proc[p] = [ me EXCEPT
                             !.at = after, !.synced = rest, !.msg_path = << >>,
                             !.done_uids = IF renamed THEN Append(@, el.uid) ELSE @,
                             !.failed_uids = IF renamed THEN @ ELSE Append(@, el.uid) ] ]
    /\ UNCHANGED << cfg, mailbox, srv, account, pc, acct, sub, loc, wire, outcome,
                    delivered, sig, poll, hooks, codec >>

\* do_fetch_batch: os.fsync(dirfd), flock(dirfd, LOCK_UN), os.close(dirfd).
\* When the fsync raises, the UIDs done have failed and the error is
\* recorded; the descriptor is neither unlocked nor closed
DirSync(p) ==
    /\ pc = "maildir"
    /\ fs.proc[p].at = "dirsync"
    /\ LET me == fs.proc[p]
       IN  \E fsynced \in BOOLEAN :
             /\ ~fsynced => budget > 0
             /\ budget' = IF fsynced THEN budget ELSE budget - 1
             /\ fs' = [ fs EXCEPT
                         !.locks = IF fsynced THEN @ \ { << p, me.batch >> } ELSE @,
                         !.proc[p] = [ me EXCEPT
                             !.at = "count",
                             !.done_uids = IF fsynced THEN @ ELSE << >>,
                             !.failed_uids = IF fsynced THEN @ ELSE @ \o me.done_uids,
                             !.errors = IF fsynced THEN @
                                        ELSE Append(@, Msg("fetch", "sync")) ] ]
    /\ UNCHANGED << cfg, mailbox, srv, account, pc, acct, sub, loc, wire, outcome,
                    delivered, sig, poll, hooks, codec >>

\* do_fetch_batch: the messages are counted and the function returns
EndBatch(p) ==
    /\ pc = "maildir"
    /\ fs.proc[p].at = "count"
    /\ fs' = [ fs EXCEPT !.proc[p] = [ @ EXCEPT !.at = "idle" ] ]
    /\ UNCHANGED << cfg, mailbox, srv, account, pc, acct, sub, loc, wire, outcome,
                    delivered, budget, sig, poll, hooks, codec >>

(* ---------------- for_each_account: the session is lost --------------- *)

\* for_each_account: a command of the session raises IMAP4.abort or OSError,
\* or the LIST of get_folders (with --all-folders) is rejected, AccountFailure;
\* `except BaseException: do_logout = False; raise`, the socket is shut down,
\* the error is recorded and the loop goes on with the next account
ConnectionLost ==
    /\ pc \in { "folder", "search", "probe", "batch", "store" }
    /\ ~raise_delayed_signals
    /\ budget > 0
    /\ budget' = budget - 1
    /\ \E exc \in { "IMAP4.abort", "OSError" }
                  \cup (IF pc = "folder" THEN { "AccountFailure" } ELSE {}) :
         /\ account' = [ account EXCEPT ![acct] = account_error(@, Msg("session", exc)) ]
         /\ wire' = IF exc = "AccountFailure"
                    THEN wire \o << Sent("LIST", << >>, "", "NO", << >>), Shutdown >>
                    ELSE Append(wire, Shutdown)
    /\ acct' = AfterAccountFailure
    /\ pc' = "account"
    /\ loc' = NoLocals
    /\ outcome' = NoOutcome
    /\ UNCHANGED << cfg, mailbox, srv, sub, delivered, sig, poll >>
    /\ HooksStep
    /\ UNCHANGED << codec, fs >>

(* ------------------------ for_each_account_poll ----------------------- *)

\* the least time slept between two cycles, in seconds
MinSleep == 60

\* to_sleep = max(60, repeat_at - now + random.randint(0, every_add_random)),
\* where repeat_at is the start of the cycle plus --every and now its end
ToSleep(every, elapsed, U) == Max(MinSleep, every - elapsed + U)

\* for_each_account_poll with --every: the random sleep before the first
\* cycle, skipped when the draw is 0
PollStart ==
    /\ pc = "poll"
    /\ \E U \in 0 .. poll.every_add_random :
         /\ poll' = [ poll EXCEPT !.U = U, !.to_sleep = U,
                                  !.cycle = IF U > 0 THEN @ ELSE @ + 1,
                                  !.started = poll.now ]
         /\ pc' = IF U = 0 THEN "account"
                  ELSE IF want_stop THEN "interrupted" ELSE "sleep"
    /\ UNCHANGED << cfg, mailbox, srv, account, acct, sub, loc, wire, outcome,
                    delivered, budget, sig, hooks, codec, fs >>

\* for_each_account_poll: the cycle is over; to_sleep is computed and do_sleep
\* starts: raise_delayed_signals(), then soft_sleep(to_sleep)
StartSleep ==
    /\ pc = "done" /\ poll.every # << >>
    /\ \E elapsed \in 0 .. MaxSkew, U \in 0 .. poll.every_add_random :
         poll' = [ poll EXCEPT !.elapsed = elapsed, !.U = U,
                               !.to_sleep = ToSleep(poll.every[1], elapsed, U) ]
    /\ pc' = IF want_stop THEN "interrupted" ELSE "sleep"
    /\ UNCHANGED << cfg, mailbox, srv, account, acct, sub, loc, wire, outcome,
                    delivered, budget, sig, hooks, codec, fs >>

\* do_sleep: soft_sleep returns after to_sleep seconds; the countdown starts
SleepEnds ==
    /\ pc = "sleep"
    /\ pc' = "countdown"
    /\ UNCHANGED << cfg, mailbox, srv, account, acct, sub, loc, wire, outcome,
                    delivered, budget, sig, poll, hooks, codec, fs >>

\* do_sleep returns after the countdown and the next cycle starts; the
\* duration and the draw of the last cycle are read no more
CycleStart ==
    /\ pc = "countdown"
    /\ poll.cycle < MaxCycles
    /\ poll' = [ poll EXCEPT !.cycle = @ + 1, !.elapsed = 0, !.U = 0,
                             !.to_sleep = 0, !.started = poll.now ]
    /\ pc' = "account"
    /\ acct' = 1
    /\ hooks' = [ hooks EXCEPT !.ran = << >>, !.count = 0 ]
    /\ UNCHANGED << codec, fs >>
    /\ UNCHANGED << cfg, mailbox, srv, account, sub, loc, wire, outcome,
                    delivered, budget, sig >>

\* time passes: a day, between any two steps of the program
Tick ==
    /\ poll.now < MaxTicks * Day
    /\ pc \notin { "dead", "interrupted", "exit 1" }
    /\ poll' = [ poll EXCEPT !.now = @ + Day ]
    /\ UNCHANGED << cfg, mailbox, srv, account, pc, acct, sub, loc, wire, outcome,
                    delivered, budget, sig, hooks, codec, fs >>

(* --------------------------- specification ---------------------------- *)

Next ==
    \/ Login
    \/ LoginFails
    \/ Select
    \/ SelectRejected
    \/ SearchRejected
    \/ SearchFetch
    \/ SearchDelete
    \/ Probe
    \/ Pack
    \/ LastBatch
    \/ BatchEmpty
    \/ BodyFetch
    \/ Deliver
    \/ Store
    \/ Logout
    \/ CycleEnd

Spec == Init /\ [][Next]_vars


(* ------------------- the packing of do_fetch, on its own ------------------ *)

\* every list of at most MaxMsgs message sizes of 1 .. MaxSize bytes
SizeLists == UNION { [ 1 .. n -> 1 .. MaxSize ] : n \in 0 .. MaxMsgs }

\* the batching options of add_common (all `type=int`, so that a --batch-number
\* of 0 is accepted), around the sizes of SizeLists
PackConfigs ==
    { [ paranoid |-> "careful", maildir |-> TRUE, mark |-> "seen",
        method |-> "delete",
        store_number |-> 2, fetch_number |-> fn,
        batch_number |-> bn, batch_size |-> bs,
        socket |-> "ssl", allow_login |-> TRUE, allow_plain |-> FALSE,
        host |-> "mail.example.org", dry_run |-> FALSE,
        very_dry_run |-> FALSE,
        folders |-> << "INBOX" >>, command |-> "for-each",
        seen |-> "unset", flagged |-> "unset", older_than |-> << >> ] :
      fn \in { 1, 2, DefaultFetchNumber },
      bn \in 0 .. MaxMsgs, bs \in 1 .. MaxSize + 1 }

\* do_fetch is entered with the UIDs SEARCH returned; the server answers every
\* command in full and every delivery succeeds
InitPack ==
    /\ codec = NoCodec
    /\ fs = NoFiles
    /\ hooks = NoHooks
    /\ sig = NoSignals
    /\ poll = NoPolling
    /\ cfg \in PackConfigs
    /\ \E m \in SizeLists : mailbox = [ a \in Accounts |-> m ]
    /\ srv = [ a \in Accounts |-> [ NoServerState EXCEPT !.capabilities = << "IMAP4rev1" >> ] ]
    /\ account = [ a \in Accounts |-> AccountReset ]
    /\ pc = "probe"
    /\ acct = 1
    /\ sub = 1
    /\ loc = [ NoLocals EXCEPT !.message_uids = AllUids(1) ]
    /\ wire = << SearchSent("fetch", "OK", AllUids(1)) >>
    /\ outcome = NoOutcome
    /\ delivered = [ a \in Accounts |-> {} ]
    /\ budget = 0

NextPack ==
    \/ Probe
    \/ Pack
    \/ LastBatch
    \/ BatchEmpty
    \/ BodyFetch
    \/ Deliver
    \/ Store

SpecPack == InitPack /\ [][NextPack]_vars

\* do_fetch is entered with small and large messages, probed two at a time;
\* the server may reject a command or leave an item out of an answer, and a
\* delivery may fail
InitPackErr ==
    /\ codec = NoCodec
    /\ fs = NoFiles
    /\ hooks = NoHooks
    /\ sig = NoSignals
    /\ poll = NoPolling
    /\ cfg \in { c \in PackConfigs : /\ c.fetch_number = 2
                                      /\ c.batch_number \in { 0, 2 }
                                      /\ c.batch_size \in { MaxSize, MaxSize + 1 } }
    /\ \E m \in [ 1 .. MaxMsgs -> { 1, MaxSize } ] :
           mailbox = [ a \in Accounts |-> m ]
    /\ srv = [ a \in Accounts |-> [ NoServerState EXCEPT !.capabilities = << "IMAP4rev1" >> ] ]
    /\ account = [ a \in Accounts |-> AccountReset ]
    /\ pc = "probe"
    /\ acct = 1
    /\ sub = 1
    /\ loc = [ NoLocals EXCEPT !.message_uids = AllUids(1) ]
    /\ wire = << SearchSent("fetch", "OK", AllUids(1)) >>
    /\ outcome = NoOutcome
    /\ delivered = [ a \in Accounts |-> {} ]
    /\ budget = MaxFaults

SpecPackErr == InitPackErr /\ [][NextPack]_vars

(* --- the program under --every, with signals and a server that    --- *)
(* --- answers as it should: two batches of messages, marked one by one --- *)

SigConfigs ==
    { [ paranoid |-> "careful", maildir |-> TRUE, mark |-> "seen",
        method |-> "delete", store_number |-> 1, fetch_number |-> 2,
        batch_number |-> 2, batch_size |-> 256 * KiB,
        socket |-> "ssl", allow_login |-> TRUE, allow_plain |-> FALSE,
        host |-> "mail.example.org", dry_run |-> FALSE,
        very_dry_run |-> FALSE,
        folders |-> << "INBOX" >>, command |-> "for-each",
        seen |-> "unset", flagged |-> "unset", older_than |-> << >> ] }

InitSig ==
    /\ codec = NoCodec
    /\ fs = NoFiles
    /\ hooks = NoHooks
    /\ sig = [ NoSignals EXCEPT !.left = MaxSignals ]
    /\ poll = [ NoPolling EXCEPT !.every = << MinSleep >>, !.cycle = 0 ]
    /\ cfg \in SigConfigs
    /\ mailbox = [ a \in Accounts |-> << 100 * KiB, 100 * KiB, 100 * KiB >> ]
    /\ srv = [ a \in Accounts |-> [ NoServerState EXCEPT !.capabilities = << "IMAP4rev1" >> ] ]
    /\ account = [ a \in Accounts |-> AccountReset ]
    /\ pc = "poll"
    /\ acct = 1
    /\ sub = 1
    /\ loc = NoLocals
    /\ wire = << >>
    /\ outcome = NoOutcome
    /\ delivered = [ a \in Accounts |-> {} ]
    /\ budget = 0

NextSig ==
    \/ Signal
    \/ Interrupted
    \/ PollStart
    \/ Login
    \/ Select
    \/ SearchFetch
    \/ SearchDelete
    \/ Probe
    \/ Pack
    \/ LastBatch
    \/ BodyFetch
    \/ Deliver
    \/ Store
    \/ Logout
    \/ CycleEnd
    \/ StartSleep
    \/ SleepEnds
    \/ CycleStart

SpecSig == InitSig /\ [][NextSig]_vars

(* --- one cycle with every failure: rejected commands, failed       --- *)
(* --- deliveries, lost sessions and one signal; the messages are     --- *)
(* --- probed and stored one by one                                   --- *)

ErrConfigs ==
    { [ c EXCEPT !.store_number = 1, !.fetch_number = 1 ] :
        c \in { d \in Configs : d.maildir /\ d.mark = "seen" /\ d.paranoid # "yolo" } }

InitErr ==
    /\ codec = NoCodec
    /\ fs = NoFiles
    /\ hooks = NoHooks
    /\ sig = [ NoSignals EXCEPT !.left = 1 ]
    /\ poll = NoPolling
    /\ cfg \in ErrConfigs
    /\ \E m \in { << 100 * KiB >>, << 100 * KiB, 100 * KiB >> } :
         mailbox = [ a \in Accounts |-> m ]
    /\ srv = [ a \in Accounts |-> [ NoServerState EXCEPT !.capabilities = << "IMAP4rev1" >> ] ]
    /\ account = [ a \in Accounts |-> AccountReset ]
    /\ pc = "account"
    /\ acct = 1
    /\ sub = 1
    /\ loc = NoLocals
    /\ wire = << >>
    /\ outcome = NoOutcome
    /\ delivered = [ a \in Accounts |-> {} ]
    /\ budget = MaxFaults

NextErr ==
    \/ Next
    \/ ConnectionLost
    \/ Signal
    \/ Interrupted

SpecErr == InitErr /\ [][NextErr]_vars

(* --- cycles of a `fetch` with --new-mail-cmd: failed deliveries and --- *)
(* --- one signal; the hooks name one command twice                   --- *)

HookCmds == { << "index" >>, << "index", "notify", "index" >> }

InitHook ==
    /\ codec = NoCodec
    /\ fs = NoFiles
    /\ \E cmds \in HookCmds : hooks = [ NoHooks EXCEPT !.new_mail_cmd = cmds ]
    /\ sig = [ NoSignals EXCEPT !.left = 1 ]
    /\ poll = [ NoPolling EXCEPT !.every = << MinSleep >>, !.cycle = 0 ]
    /\ cfg \in ErrConfigs
    /\ mailbox = [ a \in Accounts |-> << 100 * KiB >> ]
    /\ srv = [ a \in Accounts |-> [ NoServerState EXCEPT !.capabilities = << "IMAP4rev1" >> ] ]
    /\ account = [ a \in Accounts |-> AccountReset ]
    /\ pc = "poll"
    /\ acct = 1
    /\ sub = 1
    /\ loc = NoLocals
    /\ wire = << >>
    /\ outcome = NoOutcome
    /\ delivered = [ a \in Accounts |-> {} ]
    /\ budget = MaxFaults

NextHook ==
    \/ NextSig
    \/ BatchEmpty

SpecHook == InitHook /\ [][NextHook]_vars

(* --- the authentication: every socket and policy, servers with and --- *)
(* --- without IMAP4rev1 and AUTH=CRAM-MD5, refused logins, empty     --- *)
(* --- mailboxes                                                       --- *)

Sockets == { "plain", "starttls", "ssl" }

CapabilityLists ==
    { << >>, << "IMAP4rev1" >>, << "IMAP4rev1", "AUTH=CRAM-MD5" >>,
      << "IMAP4", "AUTH=CRAM-MD5" >>, << "IMAP4rev1", "AUTH=PLAIN" >> }

AuthConfigs ==
    { [ c EXCEPT !.socket = s, !.allow_login = l, !.allow_plain = p ] :
        c \in SigConfigs, s \in Sockets, l \in BOOLEAN, p \in BOOLEAN }

InitAuth ==
    /\ codec = NoCodec
    /\ fs = NoFiles
    /\ hooks = NoHooks
    /\ sig = NoSignals
    /\ poll = NoPolling
    /\ cfg \in AuthConfigs
    /\ mailbox = [ a \in Accounts |-> << >> ]
    /\ srv \in [ Accounts -> { [ NoServerState EXCEPT !.capabilities = c ] :
                                c \in CapabilityLists } ]
    /\ account = [ a \in Accounts |-> AccountReset ]
    /\ pc = "account"
    /\ acct = 1
    /\ sub = 1
    /\ loc = NoLocals
    /\ wire = << >>
    /\ outcome = NoOutcome
    /\ delivered = [ a \in Accounts |-> {} ]
    /\ budget = MaxFaults

NextAuth ==
    \/ Login
    \/ LoginFails
    \/ Select
    \/ SearchFetch
    \/ SearchDelete
    \/ Logout
    \/ CycleEnd

SpecAuth == InitAuth /\ [][NextAuth]_vars

(* --- `delete` by every method, on GMail and elsewhere, in INBOX and --- *)
(* --- in the trash: the messages are seen already, the UID STOREs   --- *)
(* --- take one UID each and may be rejected                           --- *)

DeleteConfigs ==
    { [ c EXCEPT !.method = m, !.host = h, !.folders = << f >> ] :
        c \in SigConfigs,
        m \in { "auto", "gmail-trash" } \cup DeleteMethods,
        h \in { "mail.example.org", "imap.gmail.com" },
        f \in { "INBOX", "[Gmail]/Trash" } }

InitDelete ==
    /\ codec = NoCodec
    /\ fs = NoFiles
    /\ hooks = NoHooks
    /\ sig = NoSignals
    /\ poll = NoPolling
    /\ cfg \in DeleteConfigs
    /\ mailbox = [ a \in Accounts |-> << 100 * KiB, 100 * KiB >> ]
    /\ srv = [ a \in Accounts |->
                [ NoServerState EXCEPT !.capabilities = << "IMAP4rev1" >>,
                                       !.seen = { 1, 2 } ] ]
    /\ account = [ a \in Accounts |-> AccountReset ]
    /\ pc = "account"
    /\ acct = 1
    /\ sub = 1
    /\ loc = NoLocals
    /\ wire = << >>
    /\ outcome = NoOutcome
    /\ delivered = [ a \in Accounts |-> {} ]
    /\ budget = MaxFaults

NextDelete ==
    \/ Login
    \/ Select
    \/ SearchFetch
    \/ SearchDelete
    \/ Store
    \/ Logout
    \/ CycleEnd

SpecDelete == InitDelete /\ [][NextDelete]_vars

(* --- `mark` with every marking and every flag filter, on folders   --- *)
(* --- with seen and flagged messages; the UID STOREs may be rejected --- *)

FlagOptions == { "unset", "None", "True", "False" }

MarkConfigs ==
    { [ c EXCEPT !.command = "mark", !.mark = k, !.seen = s, !.flagged = f,
                 !.store_number = n ] :
        c \in SigConfigs, k \in MarkMethods, s \in FlagOptions, f \in FlagOptions,
        n \in 1 .. 2 }

InitMark ==
    /\ codec = NoCodec
    /\ fs = NoFiles
    /\ hooks = NoHooks
    /\ sig = NoSignals
    /\ poll = NoPolling
    /\ cfg \in MarkConfigs
    /\ mailbox = [ a \in Accounts |-> << 100 * KiB, 100 * KiB, 100 * KiB >> ]
    /\ \E s \in { {}, { 1 }, { 1, 2, 3 } }, f \in { {}, { 2, 3 } } :
         srv = [ a \in Accounts |->
                   [ NoServerState EXCEPT !.capabilities = << "IMAP4rev1" >>,
                                          !.seen = s, !.flagged = f ] ]
    /\ account = [ a \in Accounts |-> AccountReset ]
    /\ pc = "account"
    /\ acct = 1
    /\ sub = 1
    /\ loc = NoLocals
    /\ wire = << >>
    /\ outcome = NoOutcome
    /\ delivered = [ a \in Accounts |-> {} ]
    /\ budget = MaxFaults

NextMark ==
    \/ Login
    \/ Select
    \/ SearchMark
    \/ Store
    \/ Logout
    \/ CycleEnd

SpecMark == InitMark /\ [][NextMark]_vars

(* --- `for-each fetch ; delete` and `mark seen`, with and without    --- *)
(* --- --dry-run and --very-dry-run, on folders with one seen and one --- *)
(* --- unseen message; commands may be rejected, deliveries may fail  --- *)

DryConfigs ==
    { [ c EXCEPT !.command = k, !.dry_run = d, !.very_dry_run = v ] :
        c \in SigConfigs, k \in { "for-each", "mark" }, d \in BOOLEAN, v \in BOOLEAN }

InitDry ==
    /\ codec = NoCodec
    /\ fs = NoFiles
    /\ hooks = [ NoHooks EXCEPT !.new_mail_cmd = << "index" >> ]
    /\ sig = NoSignals
    /\ poll = NoPolling
    /\ cfg \in DryConfigs
    /\ mailbox = [ a \in Accounts |-> << 100 * KiB, 100 * KiB >> ]
    /\ srv = [ a \in Accounts |->
                [ NoServerState EXCEPT !.capabilities = << "IMAP4rev1" >>,
                                       !.seen = { 2 } ] ]
    /\ account = [ a \in Accounts |-> AccountReset ]
    /\ pc = "start"
    /\ acct = 1
    /\ sub = 1
    /\ loc = NoLocals
    /\ wire = << >>
    /\ outcome = NoOutcome
    /\ delivered = [ a \in Accounts |-> {} ]
    /\ budget = MaxFaults

NextDry ==
    \/ Start
    \/ Next
    \/ SearchMark

SpecDry == InitDry /\ [][NextDry]_vars

(* --- imap_quote and imap_parse on every short string of letters,   --- *)
(* --- spaces, backslashes, double quotes, parentheses and braces     --- *)

Chars == { "a", " ", "\\", "\"", "(", ")", "{", "}" }

Strings == UNION { [ 1 .. n -> Chars ] : n \in 0 .. MaxLen }

\* one literal for each brace the string can hold
Literals == [ i \in 1 .. MaxLen |-> << "l", "i", "t" >> ]

InitCodec ==
    /\ \E s \in Strings :
         codec = [ NoCodec EXCEPT !.stage = "input", !.input = s, !.literals = Literals ]
    /\ fs = NoFiles
    /\ hooks = NoHooks
    /\ sig = NoSignals
    /\ poll = NoPolling
    /\ cfg \in SigConfigs
    /\ mailbox = [ a \in Accounts |-> << >> ]
    /\ srv = [ a \in Accounts |-> NoServerState ]
    /\ account = [ a \in Accounts |-> AccountReset ]
    /\ pc = "codec"
    /\ acct = 1
    /\ sub = 1
    /\ loc = NoLocals
    /\ wire = << >>
    /\ outcome = NoOutcome
    /\ delivered = [ a \in Accounts |-> {} ]
    /\ budget = 0

NextCodec ==
    \/ Quote
    \/ Parse

SpecCodec == InitCodec /\ [][NextCodec]_vars

(* --- the answer to a UID FETCH of two message bodies, with and     --- *)
(* --- without the flags of the message, cut into chunks at its       --- *)
(* --- literals and at up to MaxCuts other places                     --- *)

\* FLAGS (\Seen), as a server may add to the attributes asked for
FlagsAttr == << " ", "FLAGS", " ", "(", "\\Seen", ")" >>

\* the text of the answer for the k-th message, literals left out, and its
\* literals; flags: where the server puts FLAGS ("none", "mid", "end")
FetchText(k, flags) ==
    << IF k = 1 THEN "1" ELSE "2", " ", "(", IF k = 1 THEN "UID" ELSE "uid", " ",
       IF k = 1 THEN "101" ELSE "102" >>
    \o (IF flags = "mid" THEN FlagsAttr ELSE << >>)
    \o << " ", "BODY[HEADER]", " ", "{", "5", "}", " ", "BODY[TEXT]", " ", "{", "3", "}" >>
    \o (IF flags = "end" THEN FlagsAttr ELSE << >>)
    \o << ")" >>

FetchLiterals(k) ==
    IF k = 1 THEN << << "header 1" >>, << "text 1" >> >>
    ELSE << << "header 2" >>, << "text 2" >> >>

\* imaplib: the text is cut after the size of each literal, which follows as
\* the second half of a tuple; here it is cut after the places in `cuts` too
RECURSIVE Chunks(_, _, _, _)
Chunks(text, literals, cuts, from) ==
    LET ends == { p \in from .. Len(text) :
                    text[p] = "}" \/ p \in cuts \/ p = Len(text) }
        end == CHOOSE p \in ends : \A q \in ends : p <= q
        piece == SubSeq(text, from, end)
    IN  IF from > Len(text) THEN << >>
        ELSE IF text[end] = "}"
        THEN << Chunk(piece, Head(literals)) >>
             \o Chunks(text, Tail(literals), cuts, end + 1)
        ELSE << Plain(piece) >> \o Chunks(text, literals, cuts, end + 1)

FlagsPlaces == { "none", "mid", "end" }

InitAnswer ==
    /\ \E f1 \in FlagsPlaces, f2 \in FlagsPlaces,
          cuts \in { c \in SUBSET (1 .. Len(FetchText(1, "mid"))) :
                       Cardinality(c) <= MaxCuts } :
         codec = [ NoCodec EXCEPT
                     !.stage = "answer",
                     !.answer = << [ text |-> FetchText(1, f1), literals |-> FetchLiterals(1) ],
                                   [ text |-> FetchText(2, f2), literals |-> FetchLiterals(2) ] >>,
                     !.input = Chunks(FetchText(1, f1), FetchLiterals(1), cuts, 1)
                               \o Chunks(FetchText(2, f2), FetchLiterals(2), cuts, 1),
                     !.data = Chunks(FetchText(1, f1), FetchLiterals(1), cuts, 1)
                              \o Chunks(FetchText(2, f2), FetchLiterals(2), cuts, 1) ]
    /\ fs = NoFiles
    /\ hooks = NoHooks
    /\ sig = NoSignals
    /\ poll = NoPolling
    /\ cfg \in SigConfigs
    /\ mailbox = [ a \in Accounts |-> << >> ]
    /\ srv = [ a \in Accounts |-> NoServerState ]
    /\ account = [ a \in Accounts |-> AccountReset ]
    /\ pc = "codec"
    /\ acct = 1
    /\ sub = 1
    /\ loc = NoLocals
    /\ wire = << >>
    /\ outcome = NoOutcome
    /\ delivered = [ a \in Accounts |-> {} ]
    /\ budget = 0

NextAnswer == ReadLine

SpecAnswer == InitAnswer /\ [][NextAnswer]_vars

(* --- `fetch --older-than 1 ; delete --older-than 1` under --every,   --- *)
(* --- on empty folders, while the days pass                           --- *)

ClockConfigs == { [ c EXCEPT !.older_than = << 1 >> ] : c \in SigConfigs }

InitClock ==
    /\ codec = NoCodec
    /\ fs = NoFiles
    /\ hooks = NoHooks
    /\ sig = NoSignals
    /\ poll = [ NoPolling EXCEPT !.every = << MinSleep >>, !.cycle = 0 ]
    /\ cfg \in ClockConfigs
    /\ mailbox = [ a \in Accounts |-> << >> ]
    /\ srv = [ a \in Accounts |-> [ NoServerState EXCEPT !.capabilities = << "IMAP4rev1" >> ] ]
    /\ account = [ a \in Accounts |-> AccountReset ]
    /\ pc = "poll"
    /\ acct = 1
    /\ sub = 1
    /\ loc = NoLocals
    /\ wire = << >>
    /\ outcome = NoOutcome
    /\ delivered = [ a \in Accounts |-> {} ]
    /\ budget = 0

NextClock ==
    \/ Tick
    \/ PollStart
    \/ Login
    \/ Select
    \/ SearchFetch
    \/ SearchDelete
    \/ Logout
    \/ CycleEnd
    \/ StartSleep
    \/ SleepEnds
    \/ CycleStart

SpecClock == InitClock /\ [][NextClock]_vars

(* --- two processes deliver batches of one or two messages of the    --- *)
(* --- same octets to one Maildir, which may hold such messages       --- *)
(* --- already; every step of a delivery may fail                     --- *)

\* what D/new holds before: nothing, or messages of the same octets delivered
\* earlier, of which a reader may have moved the first to D/cur
NewBefore ==
    { << >>,
      Put(<< >>, << "a", 0 >>, << "before", 0, 0 >>),
      Put(<< >>, << "a", 1 >>, << "before", 0, 0 >>) }

InitMaildir ==
    /\ codec = NoCodec
    /\ \E new \in NewBefore : fs = [ NoFiles EXCEPT !.new = new ]
    /\ hooks = NoHooks
    /\ sig = NoSignals
    /\ poll = NoPolling
    /\ cfg \in SigConfigs
    /\ mailbox = [ a \in Accounts |-> << >> ]
    /\ srv = [ a \in Accounts |-> NoServerState ]
    /\ account = [ a \in Accounts |-> AccountReset ]
    /\ pc = "maildir"
    /\ acct = 1
    /\ sub = 1
    /\ loc = NoLocals
    /\ wire = << >>
    /\ outcome = NoOutcome
    /\ delivered = [ a \in Accounts |-> {} ]
    /\ budget = MaxFaults

NextMaildir ==
    \E p \in Procs :
        \/ StartBatch(p)
        \/ Write(p)
        \/ Fsync(p)
        \/ Lock(p)
        \/ LockFails(p)
        \/ PickName(p)
        \/ Rename(p)
        \/ DirSync(p)
        \/ EndBatch(p)

SpecMaildir == InitMaildir /\ [][NextMaildir]_vars

(* --- `fetch ; delete` of one or three messages in batches of two, probed - *)
(* --- two at a time and marked one by one, in every delivery mode;   --- *)
(* --- commands may be rejected, answers may be short, deliveries     --- *)
(* --- may fail                                                        --- *)

SeqConfigs ==
    { [ c EXCEPT !.paranoid = mode ] : c \in SigConfigs, mode \in DeliveryModes }

SeqMailboxes == { << 100 * KiB >>, << 100 * KiB, 100 * KiB, 100 * KiB >> }

InitSeq ==
    /\ codec = NoCodec
    /\ fs = NoFiles
    /\ hooks = NoHooks
    /\ sig = NoSignals
    /\ poll = NoPolling
    /\ cfg \in SeqConfigs
    /\ \E box \in SeqMailboxes : mailbox = [ a \in Accounts |-> box ]
    /\ srv = [ a \in Accounts |-> [ NoServerState EXCEPT !.capabilities = << "IMAP4rev1" >> ] ]
    /\ account = [ a \in Accounts |-> AccountReset ]
    /\ pc = "account"
    /\ acct = 1
    /\ sub = 1
    /\ loc = NoLocals
    /\ wire = << >>
    /\ outcome = NoOutcome
    /\ delivered = [ a \in Accounts |-> {} ]
    /\ budget = MaxFaults

SpecSeq == InitSeq /\ [][Next]_vars

(* --- `fetch ; delete` of two messages with one of the batching     --- *)
(* --- settings small, zero or negative: `type=int` accepts them all  --- *)

SmallInts == { -1, 0, 1 }

IntConfigs ==
    UNION { { [ c EXCEPT !.store_number = n ], [ c EXCEPT !.fetch_number = n ],
              [ c EXCEPT !.batch_number = n ], [ c EXCEPT !.batch_size = n ] } :
            c \in SigConfigs, n \in SmallInts }

InitInt ==
    /\ codec = NoCodec
    /\ fs = NoFiles
    /\ hooks = NoHooks
    /\ sig = NoSignals
    /\ poll = NoPolling
    /\ cfg \in IntConfigs
    /\ mailbox = [ a \in Accounts |-> << 100 * KiB, 100 * KiB >> ]
    /\ srv = [ a \in Accounts |-> [ NoServerState EXCEPT !.capabilities = << "IMAP4rev1" >> ] ]
    /\ account = [ a \in Accounts |-> AccountReset ]
    /\ pc = "account"
    /\ acct = 1
    /\ sub = 1
    /\ loc = NoLocals
    /\ wire = << >>
    /\ outcome = NoOutcome
    /\ delivered = [ a \in Accounts |-> {} ]
    /\ budget = MaxFaults

SpecInt == InitInt /\ [][Next]_vars

(* --- `fetch ; delete` and `delete ; delete` of two messages, seen   --- *)
(* --- or not, by every removing method, one UID per UID STORE;      --- *)
(* --- commands may be rejected and deliveries may fail               --- *)

BarrierConfigs ==
    { [ c EXCEPT !.method = m, !.command = k ] :
        c \in SigConfigs,
        m \in { "gmail-trash" } \cup DeleteMethods,
        k \in { "for-each", "for-each delete" } }

InitBarrier ==
    /\ codec = NoCodec
    /\ fs = NoFiles
    /\ hooks = NoHooks
    /\ sig = NoSignals
    /\ poll = NoPolling
    /\ cfg \in BarrierConfigs
    /\ mailbox = [ a \in Accounts |-> << 100 * KiB, 100 * KiB >> ]
    /\ \E seen \in { {}, { 1, 2 } } :
           srv = [ a \in Accounts |->
                    [ NoServerState EXCEPT !.capabilities = << "IMAP4rev1" >>,
                                           !.seen = seen ] ]
    /\ account = [ a \in Accounts |-> AccountReset ]
    /\ pc = "account"
    /\ acct = 1
    /\ sub = 1
    /\ loc = NoLocals
    /\ wire = << >>
    /\ outcome = NoOutcome
    /\ delivered = [ a \in Accounts |-> {} ]
    /\ budget = MaxFaults

SpecBarrier == InitBarrier /\ [][Next]_vars

(* --- polling without signals and without --paranoid: `fetch ;     --- *)
(* --- delete` of one message per account; logins, commands and      --- *)
(* --- deliveries may fail, the connection may be lost, and a size   --- *)
(* --- probe may be answered with broken data                         --- *)

PollConfigs ==
    { [ c EXCEPT !.store_number = 1, !.fetch_number = 1 ] :
        c \in { d \in Configs : d.maildir /\ d.mark = "seen" /\ d.paranoid # "paranoid" } }

InitPoll ==
    /\ codec = NoCodec
    /\ fs = NoFiles
    /\ hooks = NoHooks
    /\ sig = NoSignals
    /\ poll = [ NoPolling EXCEPT !.every = << MinSleep >>, !.cycle = 0 ]
    /\ cfg \in PollConfigs
    /\ mailbox = [ a \in Accounts |-> << 100 * KiB >> ]
    /\ srv = [ a \in Accounts |-> [ NoServerState EXCEPT !.capabilities = << "IMAP4rev1" >> ] ]
    /\ account = [ a \in Accounts |-> AccountReset ]
    /\ pc = "poll"
    /\ acct = 1
    /\ sub = 1
    /\ loc = NoLocals
    /\ wire = << >>
    /\ outcome = NoOutcome
    /\ delivered = [ a \in Accounts |-> {} ]
    /\ budget = MaxFaults

NextPoll ==
    \/ Next
    \/ ConnectionLost
    \/ ProbeRaises
    \/ PollStart
    \/ StartSleep
    \/ SleepEnds
    \/ CycleStart

\* the process is single-threaded and runs whenever it can: a command is
\* answered, a sleep ends
SpecPoll == InitPoll /\ [][NextPoll]_vars /\ WF_vars(NextPoll)

(* --- the sleep between the cycles: every --every near the floor, every --- *)
(* --- --every-add-random, every duration of a cycle, empty mailboxes    --- *)

Everys == (MinSleep - MaxSkew) .. (MinSleep + MaxSkew)

InitSleep ==
    /\ codec = NoCodec
    /\ fs = NoFiles
    /\ hooks = NoHooks
    /\ sig = NoSignals
    /\ \E every \in Everys, add \in 0 .. MaxSkew :
         poll = [ NoPolling EXCEPT !.every = << every >>,
                                   !.every_add_random = add, !.cycle = 0 ]
    /\ cfg \in SigConfigs
    /\ mailbox = [ a \in Accounts |-> << >> ]
    /\ srv = [ a \in Accounts |-> [ NoServerState EXCEPT !.capabilities = << "IMAP4rev1" >> ] ]
    /\ account = [ a \in Accounts |-> AccountReset ]
    /\ pc = "poll"
    /\ acct = 1
    /\ sub = 1
    /\ loc = NoLocals
    /\ wire = << >>
    /\ outcome = NoOutcome
    /\ delivered = [ a \in Accounts |-> {} ]
    /\ budget = 0

NextSleep ==
    \/ PollStart
    \/ Login
    \/ Select
    \/ SearchFetch
    \/ SearchDelete
    \/ Logout
    \/ CycleEnd
    \/ StartSleep
    \/ SleepEnds
    \/ CycleStart

SpecSleep == InitSleep /\ [][NextSleep]_vars



(* ------------------------- reading the history ------------------------ *)

\* the account whose session `wire` records
Session == IF pc \in { "account", "done" } THEN acct - 1 ELSE acct

MaxOf(S) == IF S = {} THEN 0 ELSE CHOOSE x \in S : \A y \in S : y <= x

IsBodyFetch(e) == e.cmd = "UID FETCH" /\ e.args = "(BODY.PEEK[HEADER] BODY.PEEK[TEXT])"
IsProbe(e) == e.cmd = "UID FETCH" /\ e.args = "(RFC822.SIZE)"
MarkArgs == { StoreArgs(m) : m \in MarkMethods }
RemovalArgs == { StoreArgs("delete"), StoreArgs("gmail-trash") }
IsMarkStore(e) == e.cmd = "UID STORE" /\ e.args \in MarkArgs
IsRemoval(e) ==
    \/ e.cmd = "EXPUNGE"
    \/ e.cmd = "UID STORE" /\ e.args \in RemovalArgs

BodyFetches == { i \in DOMAIN wire : IsBodyFetch(wire[i]) }
MarkStores == { i \in DOMAIN wire : IsMarkStore(wire[i]) }

\* the body FETCH of the batch the i-th command belongs to (0: none)
BatchOf(i) == MaxOf({ j \in BodyFetches : j < i })

\* the messages recorded on an account by a sub-command
ErrorsBy(a, by) == { i \in DOMAIN account[a].errors : account[a].errors[i].by = by }
Recorded(a, text) == \E i \in DOMAIN account[a].errors : account[a].errors[i].msg = text


(* -------------------------------- claims ------------------------------ *)

\* C1: every UID a marking UID STORE names was delivered earlier in the same
\* batch (its MDA exited with status 0 after its input was flushed, or its file
\* was fsynced, renamed into D/new and D/new fsynced): it is one of the UIDs of
\* the body FETCH before the STORE and its delivery completed.  No marking
\* STORE names a UID whose delivery failed or was never attempted.
C1_MarkedWereDelivered ==
    \A i \in DOMAIN wire :
        IsMarkStore(wire[i]) =>
            LET j == BatchOf(i)
                marked == Range(wire[i].uids)
            IN  /\ j > 0
                /\ marked \subseteq Range(wire[j].uids)
                /\ marked \subseteq delivered[Session]
                /\ (j = MaxOf(BodyFetches) /\ pc \notin { "account", "done" })
                       => marked \subseteq Completed(outcome)

\* a marking STORE left out a UID of its batch, whose delivery failed
C1_Witness ==
    \E i \in MarkStores :
        /\ Range(wire[i].uids) # Range(wire[BatchOf(i)].uids)
        /\ account[Session].num_undelivered > 0


FetchErred == Session \in Accounts /\ ErrorsBy(Session, "fetch") # {}

\* the SEARCH of `delete` was sent and answered OK
DeleteSearched ==
    \E i \in DOMAIN wire :
        /\ wire[i].cmd = "UID SEARCH"
        /\ wire[i].args = SearchFilter("delete")
        /\ wire[i].typ = "OK"

NothingRemoved ==
    /\ \A i \in DOMAIN wire : ~IsRemoval(wire[i])
    /\ srv[Session].deleted = {}
    /\ srv[Session].gone = {}

Marking == Session \in Accounts /\ cfg.mark # "noop"

\* the marking UID STOREs that name a UID
StoresOf(u) == { i \in MarkStores : u \in Range(wire[i].uids) }

Expected(e) ==
    IF IsProbe(e) THEN { "UID", "RFC822.SIZE" }
    ELSE { "UID", "BODY[HEADER]", "BODY[TEXT]" }

\* the FETCH answers the engine has read so far
IsRead(i) == wire[i].cmd = "UID FETCH" /\ ~(pc = "deliver" /\ i = Len(wire))
Read == { i \in DOMAIN wire : IsRead(i) }

\* the responses of the i-th answer that carry what was asked for, and those
\* that lack it
Carrying(i) ==
    { k \in DOMAIN wire[i].data : Expected(wire[i]) \subseteq wire[i].data[k].attrs }
Lacking(i) == DOMAIN wire[i].data \ Carrying(i)

\* what the answer to the i-th command adds to num_delivered + num_undelivered:
\* the messages of a body FETCH; all the requested messages of a FETCH that was
\* rejected or of a size probe that missed one of them
Counted(i) ==
    LET e == wire[i]
        answered == { e.data[k].uid : k \in Carrying(i) }
    IN  IF e.typ # "OK" THEN Len(e.uids)
        ELSE IF IsBodyFetch(e) THEN Cardinality(Carrying(i))
        ELSE IF Range(e.uids) \subseteq answered THEN 0 ELSE Len(e.uids)

\* what the first n commands added
RECURSIVE SumCounted(_)
SumCounted(n) ==
    IF n = 0 THEN 0
    ELSE (IF IsRead(n) THEN Counted(n) ELSE 0) + SumCounted(n - 1)

\* the fetch ran to its end: its SELECT was answered OK (a size probe was sent)
\* and the folder was closed
FetchClosed ==
    /\ \E i \in DOMAIN wire : IsProbe(wire[i])
    /\ \E i \in DOMAIN wire : wire[i].cmd = "CLOSE"

\* C4: an untagged FETCH response that lacks the expected attributes, in the
\* answer to the size probe or to the body FETCH, is neither delivered nor
\* counted; the other responses of the answer and the later batches are still
\* processed; one conflict error is recorded for it, so that every later delete
\* on that account in the same cycle is skipped.
C4_ConflictIsRecordedAndSkipped ==
    Session \in Accounts =>
        LET acc == account[Session]
            conflicts == { j \in DOMAIN acc.errors : acc.errors[j].msg = "conflict" }
            lacking == UNION { { << i, k >> : k \in Lacking(i) } : i \in Read }
        IN  /\ Cardinality(conflicts) = Cardinality(lacking)
            /\ acc.num_delivered + acc.num_undelivered = SumCounted(Len(wire))
            /\ FetchClosed =>
                   \A i \in Read :
                       (IsProbe(wire[i]) /\ Counted(i) = 0) =>
                           \A u \in Range(wire[i].uids) :
                               \E j \in BodyFetches : u \in Range(wire[j].uids)
            /\ conflicts # {} =>
                   /\ NothingRemoved
                   /\ DeleteSearched => Recorded(Session, "skipped")

\* the answer to a body FETCH held a response without the body ahead of a
\* message, the message was delivered, and the delete was skipped
C4_Witness ==
    /\ Session \in Accounts
    /\ \E i \in BodyFetches : \E k \in Lacking(i) : k < Len(wire[i].data)
    /\ delivered[Session] # {}
    /\ Recorded(Session, "conflict")
    /\ Recorded(Session, "skipped")


\* the delivery of the current batch wrote and renamed files into D/new and the
\* fsync of D/new failed
DirSyncFailed == cfg.maildir /\ ~outcome.dirsync

\* C5 (the step): when the fsync of D/new fails after the whole batch was
\* renamed into it, every message of the batch, the renamed ones included, is
\* counted in num_undelivered and none in num_delivered, and do_store is not
\* entered: no UID STORE is sent and nothing changes on the server.
C5_Step ==
    (pc = "deliver" /\ cfg.maildir /\ ~outcome'.dirsync) =>
        /\ account'[acct].num_undelivered
               = account[acct].num_undelivered + Cardinality(DOMAIN outcome'.msg)
        /\ account'[acct].num_delivered = account[acct].num_delivered
        /\ delivered' = delivered
        /\ pc' # "store"
        /\ \A i \in DOMAIN wire' \ DOMAIN wire : wire'[i].cmd # "UID STORE"
        /\ srv' = srv

\* C5 (the batch): no marking UID STORE follows the body FETCH of a batch whose
\* fsync of D/new failed.
C5_NoStore ==
    DirSyncFailed => \A i \in MarkStores : i < MaxOf(BodyFetches)

\* C5: delivery to a Maildir whose fsync of D/new fails re-classifies every UID
\* of the batch that was renamed into D/new as undelivered (counted in
\* num_undelivered, not in num_delivered), and no marking UID STORE is issued
\* for any UID of that batch.
C5_DirSyncFailureUndelivers == [][C5_Step]_vars /\ []C5_NoStore

\* two messages were renamed into D/new, the fsync of D/new failed, and both
\* are counted as undelivered
C5_Witness ==
    /\ DirSyncFailed
    /\ Cardinality({ u \in DOMAIN outcome.msg : outcome.msg[u].renamed }) > 1
    /\ account[Session].num_undelivered > 1
    /\ account[Session].num_delivered = 0

\* C6, as stated: in paranoid mode a batch that ends with undelivered messages
\* (the `failed to deliver` error is recorded for it) ends the process, however
\* many of its messages were delivered.
C6_Stated ==
    (cfg.paranoid = "paranoid" /\ Session \in Accounts
     /\ Recorded(Session, "undelivered")) => pc = "dead"

SoftFailed == Session \in Accounts /\ Recorded(Session, "AccountSoftFailure")

\* C7: in careful mode a batch in which delivery was attempted and no message
\* was delivered raises the soft account failure: the error is recorded on the
\* account, nothing more is sent in that session but LOGOUT (no further batch,
\* folder or sub-command), and the cycle goes on with the remaining accounts (it
\* never ends the process and can always take a step until every account was
\* visited).  A batch with a delivered message never raises it.
C7_CarefulSoftFailure ==
    cfg.paranoid = "careful" =>
        /\ pc # "dead"
        /\ (pc = "done" /\ acct = NumAccounts + 1) \/ ENABLED Next
        /\ (pc \notin { "account", "done" } /\ DOMAIN outcome.msg # {}
            /\ Completed(outcome) = {}) =>
               /\ pc = "logout"
               /\ SoftFailed
        /\ SoftFailed =>
               LET errors == account[Session].errors
               IN  /\ pc \in { "logout", "account", "done" }
                   /\ errors[Len(errors)].msg = "AccountSoftFailure"
                   /\ \A i \in DOMAIN wire :
                          i > MaxOf(BodyFetches) => wire[i].cmd = "LOGOUT"
                   /\ pc # "logout" => wire[Len(wire)].cmd = "LOGOUT"
        /\ (pc \notin { "account", "done" } /\ Completed(outcome) # {}) => ~SoftFailed

\* the first account met the soft failure before its `delete`, was logged out,
\* and the second account had its messages delivered
C7_Witness ==
    /\ cfg.paranoid = "careful"
    /\ NumAccounts > 1
    /\ Recorded(1, "AccountSoftFailure")
    /\ ~Recorded(1, "skipped")
    /\ account[2].num_delivered > 0


\* the batch do_fetch_batch is about to fetch
Handed == pc = "batch" /\ loc.batch # << >>

RECURSIVE SumSizes(_)
SumSizes(uids) ==
    IF uids = << >> THEN 0 ELSE mailbox[acct][Head(uids)] + SumSizes(Tail(uids))

C9_Scenario ==
    /\ mailbox[1] = << 100 * KiB, 200 * KiB, 300 * KiB >>
    /\ cfg.mark = "seen" /\ cfg.batch_size = 256 * KiB /\ cfg.batch_number = 10
    /\ acct = 1 /\ sub = 2 /\ pc = "folder"
    /\ budget = MaxFaults

\* the commands of the session after the size probe
AfterProbe == SliceFrom(wire, MaxOf({ i \in DOMAIN wire : IsProbe(wire[i]) }))
Cmds(w) == [ i \in DOMAIN w |-> << w[i].cmd, w[i].uids >> ]

\* C9, as amended: fetching 3 unseen messages of 100, 200 and 300 KiB with
\* batch-size 256 KiB, batch-number 10 and marking `seen` produces exactly three
\* body FETCH commands (batches {100}, {200}, {300}), three delivered messages,
\* and three `UID STORE +FLAGS.SILENT \Seen` commands, one after the delivery of
\* each batch, each naming the UID of its batch.
C9_ThreeFetchesThreeStores ==
    C9_Scenario =>
        /\ Cmds(AfterProbe) =
               << << "UID FETCH", << 1 >> >>, << "UID STORE", << 1 >> >>,
                  << "UID FETCH", << 2 >> >>, << "UID STORE", << 2 >> >>,
                  << "UID FETCH", << 3 >> >>, << "UID STORE", << 3 >> >>,
                  << "CLOSE", << >> >> >>
        /\ Cardinality(BodyFetches) = 3
        /\ Cardinality(MarkStores) = 3
        /\ \A i \in MarkStores : wire[i].args = "+FLAGS.SILENT \\Seen"
        /\ delivered[1] = { 1, 2, 3 }
        /\ account[1].num_delivered = 3
        /\ srv[1].seen = { 1, 2, 3 }

\* the scenario was run to the end of the fetch
C9_Witness == C9_Scenario /\ account[1].num_marked = 3

\* C9, as stated: three body FETCH commands, three delivered messages, and
\* exactly one UID STORE +FLAGS.SILENT \Seen that names all three UIDs.
C9_Stated ==
    C9_Scenario =>
        /\ Cardinality(BodyFetches) = 3
        /\ account[1].num_delivered = 3
        /\ Cardinality(MarkStores) = 1
        /\ \A i \in MarkStores : Range(wire[i].uids) = { 1, 2, 3 }

\* the UIDs fetched by the body FETCHes sent so far
Fetched == UNION { Range(wire[i].uids) : i \in BodyFetches }

\* C10, as amended: every batch sent in one body FETCH is a subsequence of the
\* UID list returned by SEARCH, in its order, but not always a consecutive one:
\* its UIDs were not fetched before, and a UID between two UIDs of the batch
\* that is not in the batch (it did not fit) is fetched in another batch, so
\* that every UID has been fetched once when the fetch ends.
C10_BatchIsOrderedSubsequence ==
    /\ Handed =>
           /\ \A i, k \in DOMAIN loc.batch : i < k => loc.batch[i] < loc.batch[k]
           /\ Range(loc.batch) \subseteq Range(AllUids(acct)) \ Fetched
    /\ pc = "folder" =>
           /\ Fetched = Range(AllUids(acct))
           /\ \A i, k \in BodyFetches :
                  i # k => Range(wire[i].uids) \cap Range(wire[k].uids) = {}

\* a batch that skips a message that did not fit
C10_Witness ==
    /\ Handed
    /\ \E i, k \in DOMAIN loc.batch :
           \E u \in Range(AllUids(acct)) \ Range(loc.batch) :
               loc.batch[i] < u /\ u < loc.batch[k]

\* C10, as stated: if the UIDs at positions i < k of the SEARCH result are in
\* the same batch, every UID at a position between them is in that batch too.
C10_Stated ==
    Handed =>
        \A i, k \in Range(loc.batch) :
            \A j \in Range(AllUids(acct)) :
                (i < j /\ j < k) => j \in Range(loc.batch)


(* ------------------- claims on signals and the cycle ------------------ *)

\* the commands sent after the interrupt signal was delayed
AfterStop == { i \in DOMAIN wire : want_stop /\ i > sig.at }

\* the marking STORE of a delivered batch is about to send a slice while an
\* interrupt signal waits
MarkingUnderStop == pc = "store" /\ ~loc.interruptable /\ want_stop

\* the program, not the environment, takes the step, and is not killed by a
\* second interrupt signal
ProgramStep == sig' = sig

C11_Step ==
    (MarkingUnderStop /\ ProgramStep) =>
        /\ pc' # "interrupted"
        /\ \E i \in DOMAIN wire' \ DOMAIN wire :
              /\ IsMarkStore(wire'[i])
              /\ wire'[i].uids = SliceTo(loc.store_uids, cfg.store_number)
        /\ Len(loc.store_uids) > cfg.store_number =>
              /\ pc' = "store" /\ ~loc'.interruptable
              /\ loc'.store_uids = SliceFrom(loc.store_uids, cfg.store_number)

C11_Sends == MarkingUnderStop => ENABLED Store

C11_AllStored ==
    (pc = "interrupted" /\ wire # << >> /\ wire[Len(wire)] = Shutdown) =>
        \A j \in BodyFetches :
            (Range(wire[j].uids) \cap delivered[acct]) \subseteq
                UNION { Range(wire[i].uids) : i \in { k \in MarkStores : BatchOf(k) = j } }

\* C11: once a batch was delivered, the marking UID STORE of its delivered
\* UIDs runs to its end, slice after slice of store_number UIDs, also when an
\* interrupt signal was received at any moment after the body FETCH of the
\* batch was sent: with the signal waiting, the next step of the program sends
\* the next slice and never raises the interrupt, and when a later safe point
\* does end the session every delivered UID of every fetched batch was named
\* in a marking STORE.
C11_MarkingStoreIsNotInterrupted ==
    [][C11_Step]_vars /\ []C11_Sends /\ []C11_AllStored

\* the interrupt signal arrived after the body FETCH of a batch of two, and
\* both slices of its marking STORE were sent afterwards, before the interrupt
\* was raised
C11_Witness ==
    /\ pc = "interrupted"
    /\ \E i \in MarkStores :
          /\ i > sig.at /\ i + 1 \in MarkStores
          /\ BatchOf(i) > 0 /\ BatchOf(i) <= sig.at
          /\ Len(wire[BatchOf(i)].uids) = 2
          /\ BatchOf(i + 1) = BatchOf(i)

C12_Step == (raise_delayed_signals /\ ProgramStep) => pc' = "interrupted"

C12_NoneAfterStop ==
    \A i \in AfterStop :
        /\ wire[i].cmd \notin { "CAPABILITY", "LOGIN", "SELECT", "UID FETCH", "EXPUNGE" }
        /\ wire[i].cmd = "UID STORE" =>
              IsMarkStore(wire[i]) /\ BatchOf(i) > 0 /\ BatchOf(i) <= sig.at

\* C12: after an interrupt signal was received during a cycle, the next safe
\* point raises it and ends the process: counting a command from the safe
\* point before it, no account is contacted, no folder is selected, no size
\* probe and no body FETCH is sent, and no UID STORE or EXPUNGE of a `delete`
\* is sent after the signal; the only UID STOREs sent after it are the marking
\* STOREs of the batch whose body FETCH was sent before it.
C12_StopAtNextSafePoint == [][C12_Step]_vars /\ []C12_NoneAfterStop

\* the interrupt was raised in the session of the first account after its
\* first batch: the second batch was never fetched and nothing was deleted
C12_Witness ==
    /\ pc = "interrupted" /\ want_stop /\ acct = 1
    /\ wire # << >> /\ wire[Len(wire)] = Shutdown
    /\ Cardinality(BodyFetches) = 1
    /\ Cardinality(delivered[1]) = 2
    /\ srv[1].gone = {}

\* a session is open in a cycle that started after the first interrupt signal
LaterCycle == InSession /\ poll.cycle > sig.first.cycle

\* C13, as stated: after the first interrupt signal, wherever it arrived, no
\* further polling cycle starts.
C13_Stated == sig.first.signum # "none" => ~LaterCycle

C13_Step ==
    (pc = "sleep" /\ sig'.left < sig.left /\ sig'.last = "SIGINT") =>
        pc' = "countdown"

C13_Ends ==
    /\ sig.first.during = "cycle" =>
          pc \notin { "sleep", "countdown" } /\ ~LaterCycle
    /\ (sig.first.during = "sleep" /\ sig.first.signum # "SIGINT") =>
          pc = "interrupted"
    /\ sig.first.during = "countdown" => pc = "interrupted"
    /\ (pc = "countdown" /\ poll.cycle < MaxCycles) => ENABLED CycleStart

\* C13, as amended: the first interrupt signal ends the program at the next
\* safe point, and no further polling cycle starts, when it arrives during a
\* cycle, or is SIGTERM (or SIGBREAK) during the sleep between two cycles, or
\* arrives during the countdown that follows the sleep.  A first SIGINT
\* during the sleep between two cycles only ends the sleep: the countdown
\* follows, and the next polling cycle starts after it unless another
\* interrupt signal arrives during the countdown.
C13_FirstInterrupt == [][C13_Step]_vars /\ []C13_Ends

\* SIGINT ended the sleep after a cycle and a session of the next cycle is open
C13_Witness ==
    /\ sig.first.signum = "SIGINT" /\ sig.first.during = "sleep"
    /\ sig.first.cycle >= 1
    /\ LaterCycle

C14_Step ==
    (sig'.left < sig.left /\ sig'.last = "SIGUSR1") =>
        IF pc = "sleep"
        THEN pc' = "countdown"
        ELSE Phase = "cycle" =>
                /\ sig'.delayed = sig.delayed
                /\ UNCHANGED << cfg, mailbox, srv, account, pc, acct, sub, loc,
                                wire, outcome, delivered, budget, poll >>

C14_Alive ==
    /\ pc \in { "interrupted", "aborted" } => sig.first.signum # "none"
    /\ (pc = "countdown" /\ sig.last = "SIGUSR1" /\ poll.cycle < MaxCycles) =>
          ENABLED CycleStart

\* C14: a SIGUSR1 received during the sleep between two cycles ends the sleep
\* and does not end the program: the countdown follows at once, and after it
\* the next polling cycle, without the rest of the computed sleep.  A SIGUSR1
\* received while a cycle runs changes nothing: the cycle goes on, and no
\* interrupt is delayed.  The program never ends by an exception unless an
\* interrupt signal was received.
C14_WakeEndsSleepOnly == [][C14_Step]_vars /\ []C14_Alive

\* no interrupt signal was received; a SIGUSR1 arrived during the
\* first cycle, which went on to its end and to the sleep; another SIGUSR1
\* arrived in that sleep, and a session of the second cycle is open
C14_Witness ==
    /\ sig.first.signum = "none"
    /\ InSession /\ poll.cycle = 2
    /\ Len(sig.wakes) = 2
    /\ sig.wakes[1] = [ cycle |-> 1, during |-> "cycle" ]
    /\ sig.wakes[2].cycle = 1 /\ sig.wakes[2].during = "sleep"

\* C15, as stated: the sleep between two cycles lasts
\* max(60, interval - elapsed) + U seconds, where elapsed is the duration of
\* the cycle just finished and U the draw from 0 .. --every-add-random: the
\* random addition comes on top of the floor of 60 seconds.
C15_Stated ==
    (pc = "sleep" /\ poll.cycle >= 1) =>
        poll.to_sleep = Max(MinSleep, poll.every[1] - poll.elapsed) + poll.U


(* --------------- claims on the session and its failures --------------- *)

\* the commands of the last session are all on the wire: no session is open
SessionOver == ~InSession /\ wire # << >>

Has(cmd) == \E i \in DOMAIN wire : wire[i].cmd = cmd

Authenticated == \E i \in DOMAIN wire : wire[i].cmd = "LOGIN" /\ wire[i].typ = "OK"

\* the errors that the step records on the account being visited
NewErrors ==
    IF acct \notin Accounts THEN {}
    ELSE { account'[acct].errors[i].msg :
             i \in (DOMAIN account'[acct].errors) \ (DOMAIN account[acct].errors) }

\* what the step appends to the wire (all of it after a login)
NewlySent ==
    IF pc = "account" /\ wire' # wire THEN Range(wire')
    ELSE { wire'[i] : i \in (DOMAIN wire') \ (DOMAIN wire) }

\* the step raises something other than a soft account failure or a folder
\* failure: an account failure, IMAP4.abort, OSError, an interrupt or a
\* catastrophic failure
RaisesHard ==
    \/ pc' \in { "dead", "interrupted", "aborted" } /\ pc' # pc
    \/ NewErrors \cap { "AccountFailure", "IMAP4.abort", "OSError" } # {}

\* C16, as stated: a session that was authenticated ends with a LOGOUT,
\* whatever was raised later; a session that was not ends with the shutdown of
\* the socket and no LOGOUT.
C16_Stated ==
    SessionOver =>
        IF Authenticated THEN Has("LOGOUT")
        ELSE ~Has("LOGOUT") /\ wire[Len(wire)] = Shutdown

C16_Step ==
    /\ "AccountSoftFailure" \in NewErrors => pc' = "logout" /\ wire' = wire
    /\ pc = "logout" =>
          \/ wire' = Append(wire, Sent("LOGOUT", << >>, "", "BYE", << >>))
          \/ pc' = "aborted" \/ pc' = pc
    /\ RaisesHard =>
          /\ \A e \in NewlySent : e.cmd # "LOGOUT"
          /\ ((InSession \/ wire' # wire) /\ wire' # << >>) =>
                wire'[Len(wire')] = Shutdown

C16_Ends ==
    /\ pc = "logout" => ENABLED Logout
    /\ SessionOver =>
          /\ wire[Len(wire)].cmd \in { "LOGOUT", "shutdown" }
          /\ \A i \in 1 .. Len(wire) - 1 : wire[i].cmd \notin { "LOGOUT", "shutdown" }
          /\ ~Authenticated => wire[Len(wire)] = Shutdown

\* C16, as amended: for every account visit, LOGOUT is attempted when the
\* sub-commands return or raise a soft account failure; when capability
\* verification or authentication raises, or any later step raises an account
\* failure, a socket error, an interrupt or a catastrophic failure, the
\* socket is shut down without LOGOUT.  Every session that opened a socket
\* ends with exactly one of the two.
C16_LogoutOrShutdown == [][C16_Step]_vars /\ []C16_Ends

\* an authenticated session was lost after a body FETCH and shut down, and the
\* next account was logged in
C16_Witness ==
    /\ acct = 2 /\ InSession
    /\ Recorded(1, "OSError")
    /\ account[1].num_delivered > 0

\* the step raises an account failure: connect, capability or authentication
\* failure, IMAP4.abort or OSError
AccountFails == NewErrors \cap { "AccountFailure", "IMAP4.abort", "OSError" } # {}

C17_Step ==
    AccountFails =>
        /\ acct' = acct + 1 /\ pc' = "account"
        /\ \A e \in NewlySent : e.cmd \in { "CAPABILITY", "LOGIN", "LIST", "shutdown" }
        /\ \A a \in Accounts \ { acct } : account'[a] = account[a]
        /\ UNCHANGED << srv, mailbox, delivered >>

C17_GoesOn ==
    (pc = "account" /\ acct <= NumAccounts /\ ~want_stop) => ENABLED Login

\* C17: an account failure (connect failure, missing IMAP4rev1 capability,
\* authentication failure, rejected LIST, server abort, socket OS error)
\* records an error on
\* that account and on no other, sends nothing more on its session, which is
\* shut down: the rest of its folders and sub-commands is skipped; and the loop
\* is at the next account, whose login is possible.
C17_AccountFailureIsLocal == [][C17_Step]_vars /\ []C17_GoesOn

\* the session of the first account was aborted by the server before anything
\* was delivered, and the second account was fetched and emptied
C17_Witness ==
    /\ pc = "done"
    /\ Recorded(1, "IMAP4.abort") /\ account[1].num_delivered = 0
    /\ account[2].num_delivered = 2 /\ account[2].num_deleted = 2

\* the command was rejected by the server
IsRejected(e) == e.typ = "NO" /\ e.cmd \in { "UID SEARCH", "UID FETCH", "UID STORE" }

\* the commands of the folder visit that the i-th command belongs to, sent
\* after it
LaterInVisit(i) ==
    { j \in DOMAIN wire :
        j > i /\ \A k \in i .. j : wire[k].cmd \notin { "CLOSE", "SELECT" } }

\* C18, as stated: after a rejected SEARCH, FETCH or STORE no further FETCH or
\* STORE is sent for that folder.
C18_Stated ==
    \A i \in DOMAIN wire :
        IsRejected(wire[i]) =>
            \A j \in LaterInVisit(i) : wire[j].cmd \notin { "UID FETCH", "UID STORE" }

Close == Sent("CLOSE", << >>, "", "OK", << >>)

C18_Step ==
    \A e \in NewlySent :
        IsRejected(e) =>
            /\ NewErrors = { IF e.cmd = "UID SEARCH" THEN "SEARCH"
                             ELSE IF e.cmd = "UID FETCH" THEN "FETCH" ELSE "STORE" }
            /\ acct' = acct /\ pc' \in { "folder", "probe", "pack", "store", "logout" }
            /\ e.cmd = "UID SEARCH" =>
                  wire' = wire \o << e, Close >> /\ pc' = AfterVisit
            /\ IsProbe(e) =>
                  /\ wire' = Append(wire, e) /\ pc' = "probe"
                  /\ loc'.message_uids = SliceFrom(loc.message_uids, cfg.fetch_number)
                  /\ loc'.batch = loc.batch
            /\ (IsBodyFetch(e) /\ ~loc.final) =>
                  /\ wire' = Append(wire, e) /\ pc' = "pack"
                  /\ loc'.message_uids = loc.message_uids /\ loc'.new = loc.new
            /\ (e.cmd = "UID STORE" /\ Len(loc.store_uids) > cfg.store_number) =>
                  /\ wire' = Append(wire, e) /\ pc' = "store"
                  /\ loc'.store_uids = SliceFrom(loc.store_uids, cfg.store_number)

C18_SearchEnds ==
    \A i \in DOMAIN wire :
        (IsRejected(wire[i]) /\ wire[i].cmd = "UID SEARCH") =>
            i < Len(wire) /\ wire[i + 1] = Close

\* C18, as amended: when the server rejects a SEARCH in a folder, the action on
\* that folder is abandoned (no FETCH or STORE is sent for that folder), the
\* folder is closed, an error is recorded, and processing continues with the
\* next folder on the same session.  When the server rejects a FETCH or a
\* STORE, an error is recorded and only the messages of the rejected command
\* are skipped: the action goes on, on the same folder, with the next size
\* probe, the next batch or the next slice of the STORE.
C18_RejectedCommand == [][C18_Step]_vars /\ []C18_SearchEnds

\* the first size probe of a folder was rejected and the second was answered;
\* its message was fetched, delivered and marked on the same visit
C18_Witness ==
    \E i \in DOMAIN wire :
        /\ IsProbe(wire[i]) /\ wire[i].typ = "NO"
        /\ \E j \in LaterInVisit(i) : IsProbe(wire[j]) /\ wire[j].typ = "OK"
        /\ \E j \in LaterInVisit(i) : IsMarkStore(wire[j]) /\ wire[j].typ = "OK"

\* the folder visits of the session: the SELECTs answered OK
Visits == { i \in DOMAIN wire : wire[i].cmd = "SELECT" /\ wire[i].typ = "OK" }

\* C19, as stated: every folder visit that began with a successful SELECT is
\* followed by a CLOSE before the next SELECT and before the session ends,
\* whatever the action on the folder met; a rejected SELECT is followed by a
\* recorded error and nothing else on that folder.
C19_Stated ==
    /\ \A i \in Visits :
          /\ \A j \in DOMAIN wire :
                (j > i /\ wire[j].cmd = "SELECT") =>
                    \E k \in i + 1 .. j - 1 : wire[k].cmd = "CLOSE"
          /\ SessionOver => \E k \in i + 1 .. Len(wire) : wire[k].cmd = "CLOSE"
    /\ \A i \in DOMAIN wire :
          (wire[i].cmd = "SELECT" /\ wire[i].typ = "NO" /\ i < Len(wire)) =>
              wire[i + 1].cmd \in { "SELECT", "LOGOUT", "shutdown" }

\* the sub-command that sent the i-th command of the session (0: none, the
\* command belongs to the session or to a folder visit as a whole)
SubOf(i) ==
    LET e == wire[i]
    IN  IF e.cmd = "UID SEARCH"
        THEN (IF e.args = SearchFilter(Subcfgs[1]) THEN 1 ELSE 2)
        ELSE IF IsProbe(e) \/ IsBodyFetch(e) \/ IsMarkStore(e) THEN 1
        ELSE IF IsRemoval(e) THEN 2
        ELSE 0

\* from the i-th command on, no command of a sub-command comes after a
\* command of a later one, `top` being the latest sub-command seen so far
RECURSIVE Ordered(_, _)
Ordered(i, top) ==
    IF i > Len(wire) THEN TRUE
    ELSE LET s == SubOf(i)
         IN  IF s = 0 THEN Ordered(i + 1, top)
             ELSE s >= top /\ Ordered(i + 1, s)

C20_InOrder ==
    /\ Ordered(1, 1)
    /\ \A i \in DOMAIN wire :
          /\ wire[i].cmd = "LOGIN" => i = 2 /\ wire[1].cmd = "CAPABILITY"
          /\ wire[i].cmd \in { "LOGOUT", "shutdown" } => i = Len(wire)
          /\ SubOf(i) # 0 => i > 2 /\ wire[2].cmd = "LOGIN" /\ wire[2].typ = "OK"
    /\ InSession => sub \in 1 .. Len(Subcfgs) + 1

C20_Step ==
    /\ (\E e \in NewlySent : e.cmd = "LOGIN") =>
          pc = "account" /\ acct \in Accounts
    /\ acct' \in { acct, acct + 1 }
    /\ pc' = "account" /\ pc # "account" => acct' = acct + 1
    /\ (pc = "account" /\ pc' # "account" /\ pc' \notin { "done", "interrupted", "aborted" }) =>
          acct' = acct /\ sub' = 1 /\ Authenticated'
    /\ (InSession /\ InSession') => sub' \in { sub, sub + 1 }

NthOf(S, n) == CHOOSE i \in S : Cardinality({ j \in S : j < i }) = n - 1

\* the members of a sequence in the order of their first occurrence
Firsts(s) ==
    LET keep == { i \in DOMAIN s : \A j \in 1 .. i - 1 : s[j] # s[i] }
    IN  [ n \in 1 .. Cardinality(keep) |-> s[NthOf(keep, n)] ]

\* the cycle is over: its hooks were run, or the process ended within it
CycleOver == pc \in { "done", "sleep", "countdown", "interrupted", "aborted", "dead" }

\* the cycle ran to its end
CycleCompleted == pc \in { "done", "sleep", "countdown" }

C21_Ends ==
    /\ CycleCompleted =>
          /\ hooks.ran = (IF hooks.count > 0 THEN Firsts(hooks.new_mail_cmd) ELSE << >>)
          /\ hooks.pending = << >>
    /\ ~CycleOver => hooks.ran = << >>
    /\ hooks.pending # << >> => hooks.count > 0

C21_Step ==
    /\ (hooks.ran' # hooks.ran /\ hooks.ran' # << >>) =>
          /\ pc = "account" /\ acct = NumAccounts + 1 /\ pc' = "done"
          /\ ~InSession
          /\ hooks.ran = << >> /\ hooks.ran' = hooks.pending
    /\ poll.cycle' # poll.cycle => hooks.pending' = << >>

VisitStarts == pc = "account" /\ acct \in Accounts /\ account' # account

\* the step records that `delete` was skipped
BarrierTriggered ==
    /\ acct \in Accounts
    /\ \E i \in (DOMAIN account'[acct].errors) \ (DOMAIN account[acct].errors) :
          account'[acct].errors[i] = Msg("delete", "skipped")

C22_Step ==
    /\ VisitStarts =>
          /\ \A f \in { "num_delivered", "num_undelivered", "num_marked",
                        "num_trashed", "num_deleted" } : account'[acct][f] = 0
          /\ account'[acct].errors \in { << >>, << Msg("login", "AccountFailure") >> }
          /\ (pc' = "folder") => account'[acct].errors = << >>
    /\ \A a \in Accounts : a # acct => account'[a] = account[a]
    /\ (pc # "account" /\ acct \in Accounts) =>
          /\ Len(account'[acct].errors) >= Len(account[acct].errors)
          /\ SliceTo(account'[acct].errors, Len(account[acct].errors)) = account[acct].errors
    /\ pc' = "account" /\ pc = "account" => acct' # acct \/ account' = account
    /\ BarrierTriggered =>
          /\ InSession
          /\ Len(account[acct].errors) > 0

\* C22: each visit of an account starts with its counters at zero and its
\* error list empty; within the visit the errors only grow, and no step
\* touches another account's record; so the errors that make `delete` skip a
\* folder were recorded for this account in this visit.
C22_VisitStartsClean == [][C22_Step]_vars

\* the second cycle visits the first account again: its message, left behind
\* by the failure of the first cycle, was fetched and then deleted
C22_Witness ==
    /\ poll.cycle = 2 /\ acct = 1 /\ InSession
    /\ \E i, j \in DOMAIN wire : i < j /\ IsBodyFetch(wire[i]) /\ IsRemoval(wire[j])

(* ------------------------------- C23 ---------------------------------- *)

\* the session's server answered CAPABILITY, and with these words
Advertised == IF wire # << >> /\ wire[1].cmd = "CAPABILITY" /\ wire[1].typ = "OK"
              THEN Range(wire[1].data) ELSE {}

CapabilityAnswered == wire # << >> /\ wire[1].cmd = "CAPABILITY" /\ wire[1].typ = "OK"

\* the commands that carry credentials
IsCredentials(e) == e.cmd \in { "AUTHENTICATE", "LOGIN" }

C23_Wire ==
    /\ \A i \in DOMAIN wire :
          /\ IsCredentials(wire[i]) =>
                i = 2 /\ CapabilityAnswered /\ "IMAP4rev1" \in Advertised
          /\ wire[i].cmd = "AUTHENTICATE" =>
                wire[i].args = "CRAM-MD5" /\ "AUTH=CRAM-MD5" \in Advertised
          /\ wire[i].cmd = "LOGIN" =>
                /\ "AUTH=CRAM-MD5" \notin Advertised
                /\ cfg.allow_login
                /\ cfg.socket = "plain" => cfg.allow_plain
    /\ (CapabilityAnswered /\ "IMAP4rev1" \in Advertised) =>
          /\ Len(wire) >= 2
          /\ wire[2].cmd =
               (IF "AUTH=CRAM-MD5" \in Advertised THEN "AUTHENTICATE"
                ELSE IF cfg.allow_login /\ (cfg.socket = "plain" => cfg.allow_plain)
                THEN "LOGIN"
                ELSE "shutdown")

C23_Step ==
    (pc = "account" /\ wire' # wire /\ ~\E i \in DOMAIN wire' : wire'[i].typ = "OK" /\ IsCredentials(wire'[i])) =>
        /\ pc' = "account" /\ acct' = acct + 1
        /\ account'[acct].errors # << >>

\* C23: the authentication takes the first applicable method: CRAM-MD5 when
\* the server advertises AUTH=CRAM-MD5, else LOGIN when --auth-allow-login
\* holds and, over the `plain` socket, --auth-allow-plain too, else the
\* account fails and no credentials are sent; so LOGIN never goes over `plain`
\* without both options, and a server that does not advertise IMAP4rev1 is
\* sent no credentials.
C23_FirstApplicableMethod == [][C23_Step]_vars /\ []C23_Wire

\* LOGIN was sent over the `plain` socket with both options set, to a server
\* without AUTH=CRAM-MD5
C23_Witness ==
    /\ cfg.socket = "plain" /\ cfg.allow_login /\ cfg.allow_plain
    /\ Len(wire) >= 2 /\ wire[2].cmd = "LOGIN" /\ wire[2].typ = "OK"
    /\ "AUTH=PLAIN" \in Advertised

(* ------------------------------- C24 ---------------------------------- *)

\* the method --method stands for in the folder of the run
ExpectedMethod ==
    IF cfg.method # "auto" THEN cfg.method
    ELSE IF cfg.host = "imap.gmail.com" /\ Folders[1] # "[Gmail]/Trash"
    THEN "gmail-trash"
    ELSE "delete"

IsStore(e) == e.cmd = "UID STORE"
IsExpunge(e) == e.cmd = "EXPUNGE"

\* the UID STOREs of `delete` (those of `fetch` mark the messages)
IsDeleteStore(e) == IsStore(e) /\ ~IsMarkStore(e)

C24_Wire ==
    \A i \in DOMAIN wire :
        /\ IsDeleteStore(wire[i]) =>
              /\ wire[i].args = (IF ExpectedMethod = "gmail-trash"
                                 THEN "+X-GM-LABELS \\Trash"
                                 ELSE "+FLAGS.SILENT \\Deleted")
              /\ (ExpectedMethod = "delete" /\ wire[i].typ = "OK") =>
                    i < Len(wire) /\ IsExpunge(wire[i + 1])
              /\ wire[i].typ # "OK" => (i < Len(wire) => ~IsExpunge(wire[i + 1]))
        /\ IsExpunge(wire[i]) =>
              /\ ExpectedMethod = "delete"
              /\ i > 1 /\ IsDeleteStore(wire[i - 1]) /\ wire[i - 1].typ = "OK"

\* C24: `delete --method auto` stands for gmail-trash on imap.gmail.com
\* outside of [Gmail]/Trash and for delete elsewhere; gmail-trash sends only
\* UID STORE +X-GM-LABELS \Trash, never \Deleted and never EXPUNGE; delete
\* sends one EXPUNGE right after each UID STORE of \Deleted that was answered
\* OK and none after a rejected one; delete-noexpunge sends no EXPUNGE.
C24_DeleteMethods == C24_Wire

\* --method auto on GMail: in INBOX a message went to the trash by label
C24_Witness ==
    /\ cfg.method = "auto" /\ cfg.host = "imap.gmail.com" /\ Folders[1] = "INBOX"
    /\ SessionOver
    /\ \E i \in DOMAIN wire :
          IsStore(wire[i]) /\ wire[i].args = "+X-GM-LABELS \\Trash" /\ wire[i].typ = "OK"
    /\ \E i \in DOMAIN wire : IsStore(wire[i]) /\ wire[i].typ = "NO"

(* ------------------------------- C25 ---------------------------------- *)

\* the filter that selects the messages lacking a marking
ComplementFilter(mark) ==
    CASE mark = "seen" -> "(UNSEEN)"
      [] mark = "unseen" -> "(SEEN)"
      [] mark = "flagged" -> "(UNFLAGGED)"
      [] mark = "unflagged" -> "(FLAGGED)"

IsSearch(e) == e.cmd = "UID SEARCH"

\* C25 as stated: `mark M` given without a SEEN or FLAGGED filter option
\* searches for the messages that lack the marking M
C25_Stated ==
    (cfg.command = "mark" /\ cfg.seen = "unset" /\ cfg.flagged = "unset") =>
        \A i \in DOMAIN wire :
            IsSearch(wire[i]) => wire[i].args = ComplementFilter(cfg.mark)

(* ------------------------------- C26 ---------------------------------- *)

\* the UIDs the UID STOREs of the session name, in the order sent
RECURSIVE StoredUids(_)
StoredUids(w) ==
    IF w = << >> THEN << >>
    ELSE (IF IsStore(Head(w)) THEN Head(w).uids ELSE << >>) \o StoredUids(Tail(w))

\* the number of messages named by the UID STOREs that were answered OK
RECURSIVE StoredOk(_)
StoredOk(w) ==
    IF w = << >> THEN 0
    ELSE (IF IsStore(Head(w)) /\ Head(w).typ = "OK" THEN Len(Head(w).uids) ELSE 0)
         + StoredOk(Tail(w))

\* the UIDs the SEARCH of the session returned
Searched == IF \E i \in DOMAIN wire : IsSearch(wire[i])
            THEN wire[CHOOSE i \in DOMAIN wire : IsSearch(wire[i])].data
            ELSE << >>

StoreOp(mark) ==
    CASE mark = "seen" -> "+FLAGS.SILENT \\Seen"
      [] mark = "unseen" -> "-FLAGS.SILENT \\Seen"
      [] mark = "flagged" -> "+FLAGS.SILENT \\Flagged"
      [] mark = "unflagged" -> "-FLAGS.SILENT \\Flagged"

\* C26: the UID STOREs of `mark` for a folder name the UIDs its SEARCH
\* returned, each once and no other (those sent so far and those still to be
\* sent make up the search result, in its order); each names at most
\* store_number UIDs and carries +FLAGS.SILENT for seen and flagged,
\* -FLAGS.SILENT for unseen and unflagged; num_marked is the number of
\* messages named by the UID STOREs that were answered OK.
C26_MarkStores ==
    (cfg.command = "mark" /\ InSession) =>
        /\ StoredUids(wire) \o (IF pc = "store" THEN loc.store_uids ELSE << >>)
             = Searched
        /\ \A i \in DOMAIN wire :
              IsStore(wire[i]) =>
                  /\ Len(wire[i].uids) \in 1 .. cfg.store_number
                  /\ wire[i].args = StoreOp(cfg.mark)
        /\ account[acct].num_marked = StoredOk(wire)

\* `mark seen --unseen` of three unseen messages, two to a UID STORE: the
\* first was answered OK and the second rejected, two messages are marked
C26_Witness ==
    /\ cfg.command = "mark" /\ cfg.mark = "seen" /\ cfg.seen = "False"
    /\ cfg.store_number = 2
    /\ pc = "logout" /\ Len(Searched) = 3
    /\ account[acct].num_marked = 2
    /\ \E i \in DOMAIN wire : IsStore(wire[i]) /\ wire[i].typ = "NO"

(* ------------------------------- C27 ---------------------------------- *)

\* the account record shows no work done
NothingCounted(acc) ==
    /\ acc.num_delivered = 0 /\ acc.num_undelivered = 0
    /\ acc.num_marked = 0 /\ acc.num_trashed = 0 /\ acc.num_deleted = 0

C27_DryRun ==
    cfg.dry_run =>
        /\ \A i \in DOMAIN wire : wire[i].cmd \notin { "UID FETCH", "UID STORE", "EXPUNGE" }
        /\ \A a \in Accounts : delivered[a] = {} /\ NothingCounted(account[a])
        /\ \A a \in Accounts : srv[a].seen = { 2 } /\ srv[a].gone = {}
        /\ hooks.pending = << >> /\ hooks.ran = << >>
        /\ pc \notin { "probe", "pack", "batch", "deliver", "store" }

C27_VeryDryRun ==
    cfg.very_dry_run =>
        /\ pc \in { "start", "exit 1" }
        /\ wire = << >>
        /\ \A a \in Accounts : account[a] = AccountReset

C27_Step ==
    /\ pc = "start" /\ cfg.very_dry_run => pc' = "exit 1"
    /\ pc' = "exit 1" => pc = "start" /\ cfg.very_dry_run

\* C27: with --dry-run the SEARCH of a folder is followed by no FETCH, STORE
\* or EXPUNGE for `mark`, `fetch` and `delete`: nothing is delivered, no hook
\* is queued, the counters stay at zero and the server's flags are untouched;
\* with --very-dry-run the process exits with status 1 before any server is
\* contacted.
C27_NothingChanges == [][C27_Step]_vars /\ []C27_DryRun /\ []C27_VeryDryRun

\* a --dry-run of `for-each fetch ; delete` ran to its end: the last session
\* searched INBOX for both sub-commands, each search matched a message, and
\* the session logged out
C27_Witness ==
    /\ cfg.dry_run /\ cfg.command = "for-each" /\ pc = "done"
    /\ Cardinality({ i \in DOMAIN wire : IsSearch(wire[i]) /\ Len(wire[i].data) = 1 }) = 2
    /\ wire[Len(wire)].cmd = "LOGOUT"

(* ------------------------------- C28 ---------------------------------- *)

\* the quoted string was parsed
QuotedParsed == codec.stage = "parsed" /\ codec.line = imap_quote(codec.input)

\* C28 as stated: for every string s, the empty string included,
\* imap_parse(imap_quote(s)) = [s]
C28_Stated ==
    QuotedParsed =>
        /\ codec.result.err = ""
        /\ codec.result.val = << Atom(codec.input) >>

(* ------------------------------- C29 ---------------------------------- *)

\* a reading of the string by the grammar alone: inside a quoted string a
\* backslash takes the next character and a double quote ends the string;
\* outside, a parenthesis opens or closes a list.  The result: is a quoted
\* string open at the end, and how many lists are
RECURSIVE Scan(_, _, _, _)
Scan(s, i, quoted, depth) ==
    IF i > Len(s) THEN [ quoted |-> quoted, depth |-> depth ]
    ELSE IF quoted
    THEN (IF s[i] = "\\" THEN Scan(s, i + 2, TRUE, depth)
          ELSE Scan(s, i + 1, s[i] # "\"", depth))
    ELSE CASE s[i] = "\"" -> Scan(s, i + 1, TRUE, depth)
           [] s[i] = "(" -> Scan(s, i + 1, FALSE, depth + 1)
           [] s[i] = ")" -> Scan(s, i + 1, FALSE, Max(depth - 1, 0))
           [] OTHER -> Scan(s, i + 1, FALSE, depth)

\* a double quote or an opening parenthesis of the string is never closed
Unclosed(s) == LET end == Scan(s, 1, FALSE, 0) IN end.quoted \/ end.depth > 0

\* the string was parsed as it is
RawParsed == codec.stage = "parsed" /\ codec.line = codec.input

\* C29 as stated: the parser raises an error for every input in which a
\* double quote or an opening parenthesis is never closed, whatever follows
\* the opening character, nothing included
C29_Stated == (RawParsed /\ Unclosed(codec.input)) => codec.result.err # ""

(* ------------------------------- C30 ---------------------------------- *)

\* the attributes of each message of the answer, by parsing its whole text
\* with its literals
WholeAttrs ==
    [ k \in DOMAIN codec.answer |->
        Attrs(codec.answer[k].text, codec.answer[k].literals).val ]

\* the reader is through with the answer
AnswerRead == codec.stage \in { "read", "raised" }

\* the pieces of text alone that end with a closing parenthesis
ClosingPieces ==
    { i \in DOMAIN codec.input :
        /\ ~codec.input[i].tuple
        /\ codec.input[i].piece[Len(codec.input[i].piece)] = ")" }

\* C30 as stated: however the answer is cut into tuples and pieces of text,
\* the reader yields the attributes of each message as the parse of its whole
\* text gives them
C30_Stated ==
    AnswerRead => codec.result.err = "" /\ codec.result.val = WholeAttrs

\* C30: when no piece of text alone but the last of each message ends with a
\* closing parenthesis, the reader yields the attributes of each message as
\* the parse of its whole text gives them
C30_ReaderRefinesParser ==
    (AnswerRead /\ Cardinality(ClosingPieces) = Len(codec.answer))
        => codec.result.err = "" /\ codec.result.val = WholeAttrs

\* an answer with the flags of a message in it, cut inside the text of a
\* message, has been read
C30_Witness ==
    /\ codec.stage = "read"
    /\ Cardinality(ClosingPieces) = Len(codec.answer)
    /\ Len(codec.input) > 6
    /\ \E k \in DOMAIN codec.answer : << "FLAGS" >> \in DOMAIN codec.result.val[k]
    /\ \A k \in DOMAIN codec.answer :
         { << "UID" >>, << "BODY[HEADER]" >>, << "BODY[TEXT]" >> }
            \subseteq DOMAIN codec.result.val[k]

(* ------------------------------- C31 ---------------------------------- *)

\* the date a filter made at instant t carries
DateAt(t) ==
    << imap_date(MinOf({ t - cfg.older_than[i] * Day : i \in DOMAIN cfg.older_than })) >>

\* a SEARCH is sent in this step
SearchStep == Len(wire') > Len(wire) /\ IsSearch(wire'[Len(wire) + 1])

\* the SEARCHes of the session
Searches == { i \in DOMAIN wire : IsSearch(wire[i]) }

\* C31 as stated: every SEARCH of a cycle carries the date of the instant the
\* cycle started at
C31_Step ==
    SearchStep => wire'[Len(wire) + 1].before = DateAt(poll.started)

C31_Stated == [][C31_Step]_vars

\* the filters in use were made in the cycle that runs, at the instant the
\* sub-commands of the session were started
C31_Session ==
    (InSession /\ poll.every # << >>) =>
        /\ poll.rendered >= poll.started
        /\ \A i \in Searches : wire[i].before = DateAt(poll.rendered)

C31_Rerendered ==
    (Len(wire') = 2 /\ wire'[2].typ = "OK" /\ Len(wire) # 2) => poll.rendered' = poll.now

\* C31: in polling mode the search filters are made anew in each cycle, at the
\* start of the sub-commands of each session, and all the sub-commands of a
\* session search with the filters of that one instant
C31_FiltersOfOneInstant == [][C31_Rerendered]_vars /\ []C31_Session

\* in the second cycle, days after the first, both sub-commands have searched
\* the second account with a date later than that of the first cycle
C31_Witness ==
    /\ poll.cycle = 2 /\ acct = 2
    /\ Cardinality(Searches) = 2
    /\ \A i \in Searches : wire[i].before = DateAt(poll.rendered)
    /\ poll.rendered > poll.started
    /\ DateAt(poll.rendered) # DateAt(poll.started)
    /\ DateAt(poll.started) # DateAt(0)

(* ------------------------------- C32 ---------------------------------- *)

\* the files of D/new that a batch of a process brought there
FilesOf(p, batch) ==
    { n \in DOMAIN fs.new : fs.new[n][1] = p /\ fs.new[n][2] = batch }

\* no step replaces or removes a file of D/new
C32_NoOverwrite ==
    \A n \in DOMAIN fs.new : n \in DOMAIN fs.new' /\ fs.new'[n] = fs.new[n]

\* the name a file is about to be renamed to is free, and it has the least
\* counter of the free names of its hash
C32_LeastFree ==
    \A p \in Procs :
        fs.proc[p].at = "rename" =>
            /\ fs.proc[p].msg_path \notin DOMAIN fs.new
            /\ \A m \in 0 .. fs.proc[p].msg_path[2] - 1 :
                   << fs.proc[p].msg_path[1], m >> \in DOMAIN fs.new

\* when a batch ends without an error, D/new holds one file of the batch per
\* UID done, and nothing else of the batch
C32_OnePerUid ==
    \A p \in Procs :
        (fs.proc[p].at = "count" /\ fs.proc[p].errors = << >>) =>
            /\ Cardinality(FilesOf(p, fs.proc[p].batch)) = Len(fs.proc[p].done_uids)
            /\ { fs.new[n][3] : n \in FilesOf(p, fs.proc[p].batch) }
                   = Range(fs.proc[p].done_uids)

\* C32: delivery to the Maildir never replaces a file of D/new: each message
\* is renamed to the name of its hash with the least free counter, so that
\* messages of the same octets, of one batch, of successive batches or of two
\* processes that lock D/new, end as files that differ in the counter only,
\* one per UID delivered
C32_NeverOverwrites ==
    [][C32_NoOverwrite]_vars /\ [](C32_LeastFree /\ C32_OnePerUid)

\* both processes delivered messages of the same octets, this one two in its
\* second batch, next to a file that was there before: six files of one hash
C32_Witness ==
    /\ fs.proc["this"].at = "count" /\ fs.proc["this"].batch = 2
    /\ fs.proc["this"].done_uids = << 1, 2 >>
    /\ Cardinality(FilesOf("this", 1)) = 1
    /\ Cardinality(FilesOf("this", 2)) = 2
    /\ Cardinality(FilesOf("other", 1)) = 2
    /\ Cardinality(FilesOf("before", 0)) = 1
    /\ DOMAIN fs.new = { << "a", m >> : m \in 0 .. 5 }

(* ------------------------------- C33 ---------------------------------- *)

\* the temporary files a batch of a process made that are still in D/tmp
TmpOf(p, batch) == { t \in fs.tmp : t[1] = p /\ t[2] = batch }

\* do_fetch_batch is over, by return or by exception
BatchOver(p) == fs.proc[p].at \in { "count", "raised" }

\* the UIDs of the batch that were written to D/tmp or failed before
Tried(p) ==
    Range(fs.proc[p].done_uids) \cup Range(fs.proc[p].failed_uids)
    \cup { fs.proc[p].unsynced[i].uid : i \in DOMAIN fs.proc[p].unsynced }

\* C33 as stated: when a batch is over, however it ended, every UID that was
\* not delivered is in failed_uids and no temporary file of the batch is left
C33_Stated ==
    \A p \in Procs :
        BatchOver(p) =>
            /\ TmpOf(p, fs.proc[p].batch) = {}
            /\ Tried(p) \ Range(fs.proc[p].done_uids) \subseteq Range(fs.proc[p].failed_uids)

(* ------------------------------- C34 ---------------------------------- *)

\* the descriptors of D/new of a process that hold the lock
LocksOf(p) == { d \in fs.locks : d[1] = p }

\* C34 as stated: a process holds the lock of D/new only while it renames and
\* syncs the directory; when its batch is over the lock is released
C34_Stated ==
    \A p \in Procs :
        LocksOf(p) # {} => fs.proc[p].at \in { "pick", "rename", "dirsync" }

(* ------------------------------- C35 ---------------------------------- *)

\* the step sends a command, and `what` holds of the first command it sends
Sends(what(_)) == Len(wire') > Len(wire) /\ what(wire'[Len(wire) + 1])

IsUidFetch(e) == e.cmd = "UID FETCH"
LastBodyFetch == MaxOf(BodyFetches)

\* the messages of a batch are delivered only after its body FETCH was answered
C35_FetchThenDeliver ==
    (pc = "deliver" /\ outcome' # outcome) =>
        /\ wire # << >>
        /\ IsBodyFetch(wire[Len(wire)]) /\ wire[Len(wire)].typ = "OK"
        /\ DOMAIN outcome'.msg \subseteq Range(wire[Len(wire)].uids)
        /\ delivered'[acct] \ delivered[acct] \subseteq Range(wire[Len(wire)].uids)

\* a marking STORE is sent only after every message of the batch's answer was
\* delivered or failed, and names completed deliveries only
C35_DeliverThenStore ==
    Sends(IsMarkStore) =>
        /\ LastBodyFetch > 0
        /\ DOMAIN outcome.msg = Range(MessageUids(wire[LastBodyFetch].data))
        /\ Range(wire'[Len(wire) + 1].uids) \subseteq Completed(outcome)

\* a size probe or body FETCH is sent only after the marking STOREs of the
\* batch before it named every message the batch delivered
C35_StoreThenFetch ==
    (Sends(IsUidFetch) /\ cfg.mark # "noop" /\ LastBodyFetch > 0) =>
        Completed(outcome) \subseteq
            UNION { Range(wire[i].uids) :
                        i \in { k \in MarkStores : k > LastBodyFetch } }

\* C35: on one account the batches run one after another: the body FETCH of a
\* batch is answered before any of its messages is delivered, the deliveries of
\* the batch are over before its marking STORE is sent, and the marking STOREs
\* of the batch are answered before the size probe or body FETCH of a later
\* batch is sent
C35_BatchesInSequence ==
    [][C35_FetchThenDeliver /\ C35_DeliverThenStore /\ C35_StoreThenFetch]_vars

\* two batches ran on the account, each marked after its delivery
C35_Witness ==
    \E i, j \in BodyFetches :
        /\ i < j
        /\ \E k \in MarkStores : i < k /\ k < j
        /\ \E k \in MarkStores : j < k
        /\ delivered[Session] = Range(wire[i].uids) \cup Range(wire[j].uids)

(* ------------------------------- C36 ---------------------------------- *)

\* the size probes that were answered OK with every requested UID
GoodProbes ==
    { i \in DOMAIN wire :
        /\ IsProbe(wire[i])
        /\ ProbeAnswered(account[1], wire[i], wire[i].uids).ok }

Probed == UNION { Range(wire[i].uids) : i \in GoodProbes }

\* the number of places of the body FETCH commands sent so far that name u
TimesFetched(u) ==
    Cardinality({ p \in BodyFetches \X (1 .. MaxMsgs) :
                    p[2] <= Len(wire[p[1]].uids) /\ wire[p[1]].uids[p[2]] = u })

\* the fetch ran to its end: no exception left do_fetch
FetchOver == pc = "folder"

\* what is left to pack: two for every probed message not yet in a batch, one
\* for a batch carried into the turn
PackRank ==
    2 * Len(loc.new) + (IF pc = "pack" /\ loc.batch # << >> THEN 1 ELSE 0)

\* every turn of the packing loop that hands over a batch hands over a
\* non-empty one and lowers the rank; fetching the batch does not raise it
C36_PackStep ==
    /\ (pc = "pack" /\ pc' = "batch") =>
           loc'.batch # << >> /\ PackRank' < PackRank
    /\ (pc \in { "batch", "deliver", "store" }
          /\ pc' \in { "pack", "batch", "deliver", "store" }) =>
           PackRank' <= PackRank

\* C36: every UID whose size was probed with success is in exactly one body
\* FETCH when the fetch ends without an exception, no UID is ever fetched
\* twice, only probed UIDs are fetched, a message whose size alone reaches
\* batch-size is fetched in a batch of its own, and every turn of the packing
\* loop makes progress, so that the loop ends
C36_EveryProbedFetchedOnce ==
    /\ [][C36_PackStep]_vars
    /\ [](/\ \A u \in Range(AllUids(1)) : TimesFetched(u) <= 1
          /\ Fetched \subseteq Probed
          /\ \A i \in BodyFetches :
                 \A u \in Range(wire[i].uids) :
                     mailbox[1][u] >= cfg.batch_size => Len(wire[i].uids) = 1
          /\ FetchOver => \A u \in Probed : TimesFetched(u) = 1)

\* a fetch ended in which one probe failed and a message that alone reaches
\* batch-size was probed after a smaller one and fetched alone
C36_Witness ==
    /\ FetchOver
    /\ Probed # {} /\ Probed # Range(AllUids(1))
    /\ \E i, k \in BodyFetches :
           /\ i < k
           /\ Len(wire[k].uids) = 1
           /\ mailbox[1][wire[k].uids[1]] >= cfg.batch_size
           /\ \A u \in Range(wire[i].uids) : mailbox[1][u] < cfg.batch_size

(* ------------------------------- C37 ---------------------------------- *)

\* a turn of the loop of do_store, and of the probing loop of do_fetch
StoreTurn == pc = "store" /\ Len(wire') > Len(wire)
ProbeTurn == pc = "probe" /\ Len(wire') > Len(wire)

\* every turn of a loop takes at least one UID off the list the loop runs
\* over, and every turn of the packing loop lowers its rank
C37_Progress ==
    /\ StoreTurn =>
           /\ wire'[Len(wire) + 1].uids # << >>
           /\ pc' = "store" => Len(loc'.store_uids) < Len(loc.store_uids)
    /\ ProbeTurn =>
           /\ wire'[Len(wire) + 1].uids # << >>
           /\ Len(loc'.message_uids) < Len(loc.message_uids)
    /\ (pc = "pack" /\ pc' = "batch") => PackRank' < PackRank

\* C37 as stated: whatever integers --store-number, --fetch-number,
\* --batch-number and --batch-size are, the mark, fetch and delete loops end
\* after finitely many commands: each of their turns makes progress
C37_Stated == [][C37_Progress]_vars

(* ------------------------------- C38 ---------------------------------- *)

\* the UIDs the SEARCH of the fetch returned in this session
FetchSearched ==
    LET S == { i \in DOMAIN wire : /\ IsSearch(wire[i])
                                   /\ wire[i].args = SearchFilter("fetch")
                                   /\ wire[i].typ = "OK" }
    IN  IF S = {} THEN << >> ELSE wire[MinOf(S)].data

\* the fetch of the folder returned to for_each_folder_: no exception ended it
FetchReturned == pc = "folder" /\ sub = 2 /\ Subcfgs[1] = "fetch"

\* C38 as stated: when a fetch of a folder has returned, the messages counted
\* as delivered and as undelivered are together as many as the UIDs SEARCH
\* returned, whatever the server answered to the probes and the body FETCHes
C38_Stated ==
    FetchReturned =>
        account[acct].num_delivered + account[acct].num_undelivered
            = Len(FetchSearched)

(* ------------------------------- C39 ---------------------------------- *)

\* the commands the step sends
SentNow == { i \in DOMAIN wire' : i > Len(wire) }

\* the step sends a deletion command
Removes == \E i \in SentNow : IsRemoval(wire'[i])

\* the SEARCH of the folder visit that is running
LastSearch == MaxOf({ i \in DOMAIN wire : IsSearch(wire[i]) })

\* the deletion STOREs of the running visit that were rejected
RejectedRemovals ==
    { i \in DOMAIN wire : i > LastSearch /\ IsRemoval(wire[i]) /\ wire[i].typ # "OK" }

\* C39 as stated: no deletion command is sent while the error list of the
\* account is non-empty
C39_Stated == [][Removes => account[acct].errors = << >>]_vars

\* a deletion command is sent by the do_store of a `delete` only, and every
\* error the account has by then is a rejected deletion STORE of this very
\* visit: the list was empty when the delete started on the folder
C39_Step ==
    Removes =>
        /\ pc = "store" /\ Command = "delete"
        /\ Len(account[acct].errors) = Cardinality(RejectedRemovals)
        /\ \A i \in DOMAIN account[acct].errors :
               account[acct].errors[i] = Msg("delete", "STORE")

\* C39, as amended: a delete that starts on a folder while the error list of
\* the account is non-empty sends no deletion command; a rejected deletion
\* STORE does not stop the remaining batches of its folder, but the delete
\* sub-actions after it are skipped
C39_BarrierAtStart == [][C39_Step]_vars

\* a deletion STORE was rejected, the next batch of the folder was sent, and the
\* second delete of the cycle was skipped
C39_Witness ==
    /\ cfg.command = "for-each delete"
    /\ Session \in Accounts
    /\ Recorded(Session, "skipped")
    /\ \E i, j \in DOMAIN wire :
           /\ i < j
           /\ IsRemoval(wire[i]) /\ wire[i].typ # "OK"
           /\ IsRemoval(wire[j]) /\ wire[j].typ = "OK"
    /\ RejectedRemovals = {}

(* ------------------------------- C40 ---------------------------------- *)

\* C40 as stated: in polling mode without signals and without --paranoid the
\* process never ends, and cycle k is followed by cycle k + 1 whatever the
\* server does in it
C40_Stated ==
    /\ [](pc # "dead")
    /\ \A k \in 1 .. MaxCycles - 1 : (poll.cycle = k) ~> (poll.cycle = k + 1)

=============================================================================
